---- MODULE Spec2Model ----
(***************************************************************************)
(* gitstat: the commit stream parser (internal/git/parser.go), the          *)
(* aggregation engine and the identity merge operator                       *)
(* (internal/stats/aggregator.go) and the multi-repository scan             *)
(* (internal/ui/app.go), as state machines.                                 *)
(*                                                                          *)
(* Conventions.                                                             *)
(*  - A Go map is a function whose DOMAIN is the set of present keys.       *)
(*  - A file path is the sequence of its segments, <<"src", "a.go">>.       *)
(*  - A time.Time is the number of hours since the zero time (0001-01-01    *)
(*    00:00, a Monday), taken in the display time zone; 0 is the zero time. *)
(*  - A float64 ownership share is the exact fraction <<num, den>>.         *)
(*  - The [7][24]int weekday x hour matrix is the map of its nonzero cells, *)
(*    keyed <<weekday, hour>>; a cell left out holds 0.                     *)
(*  - Go ranges over a map in an unspecified order: every loop over the     *)
(*    merge map is modelled for every visiting order.                       *)
(***************************************************************************)
EXTENDS Integers, Sequences, FiniteSets, TLC

VARIABLES
    repo,         \* Aggregator.repo: the aggregate model (stats.Repository)
    lastOp,       \* the last operation applied to the model
    mergedNow,    \* emails whose accumulators the last ApplyAuthorMerges removed
    obsAdd,       \* additions of the non-binary file changes observed so far
    obsDel,       \* deletions of the non-binary file changes observed so far
    src,          \* the log source of the running Parse: what it has emitted
    ps,           \* the locals of the running Parse
    pc,           \* Parse: "idle", "start", "scanning" or "returned"
    retErr,       \* what Parse returned: "none" before it returns
    delivered,    \* the calls of the commit callback, in order
    progress,     \* the calls of the progress callback, in order
    page,         \* App.pages: the page shown
    scanIdx,      \* scanRepositories: the index of the repository in the loop
    parsed,       \* the repositories Parse was called for in this scan
    failed,       \* the repositories whose Parse returned an error
    codebase,     \* scanRepositories: totalCodebaseSize
    finalizeCalls, \* the calls of Finalize in this scan
    observed,     \* the commits ProcessCommit was called with, in order, as
                  \* the observation machine records them
    owner,        \* the identity the commits of each email are attributed to,
                  \* as the lifecycle machine records it
    held,         \* the value the last resolver call returned, as its caller
                  \* holds it
    pending,      \* AuthorsView.merges: the pending alias -> primary map
    selected,     \* AuthorsView.selected: the emails selected for a batch
    cursor,       \* the email of AuthorsView.authors[selectedIdx]; "" when
                  \* the index is outside the list
    handed,       \* the last map applyMerges handed to onMerge, if any
    threads,      \* the goroutines the application started that still run
    updates,      \* the closures queued with QueueUpdateDraw, oldest first
    uiPc,         \* the event loop: "idle", or inside a refresh of the views
    spawned,      \* the goroutines started so far
    sortCol,      \* the sortCol field of each sortable view
    showPRs       \* PullRequestsView.showPRs

aggVars == <<repo, lastOp, mergedNow, obsAdd, obsDel>>

parseVars == <<src, ps, pc, retErr, delivered, progress>>

scanVars == <<page, scanIdx, parsed, failed, codebase, finalizeCalls>>

histVars == <<observed, owner>>

queryVars == <<held>>

viewVars == <<pending, selected, cursor, handed>>

appVars == <<threads, updates, uiPc, spawned>>

sortVars == <<sortCol, showPRs>>

vars == <<repo, lastOp, mergedNow, obsAdd, obsDel, src, ps, pc, retErr, delivered,
          progress, page, scanIdx, parsed, failed, codebase, finalizeCalls, observed,
          owner, held, pending, selected, cursor, handed, threads, updates, uiPc, spawned,
          sortCol, showPRs>>

(***************************************************************************)
(* Bounds and input sets                                                    *)
(***************************************************************************)
MaxCommits == 3

HoursPerDay == 24

DaysPerWeek == 7

Emails == {"a@x.com", "b@x.com", "c@x.com"}

\* the views with a CycleSortColumn the claims name
SortableViews == {"Leaderboard", "Top Files", "Hotspots", "Pull Requests"}

AuthorIds ==
    { [Name |-> "Jo", Email |-> "a@x.com"],
      [Name |-> "Jo", Email |-> "b@x.com"],
      [Name |-> "Ann", Email |-> "c@x.com"] }

MainGo == <<"main.go">>

SrcA == <<"src", "a.go">>

SrcLogo == <<"src", "logo.png">>

FC(path, add, del) ==
    [FilePath |-> path, Additions |-> add, Deletions |-> del, IsBinary |-> FALSE]

BinFC(path) ==
    [FilePath |-> path, Additions |-> 0, Deletions |-> 0, IsBinary |-> TRUE]

(***************************************************************************)
(* Go map helpers                                                           *)
(***************************************************************************)
EmptyMap == [x \in {} |-> 0]

Has(f, k) == k \in DOMAIN f

Put(f, k, v) == [x \in (DOMAIN f) \cup {k} |-> IF x = k THEN v ELSE f[x]]

Del(f, k) == [x \in (DOMAIN f) \ {k} |-> f[x]]

\* m[k] of a map[...]int: the zero value when the key is absent
Get0(f, k) == IF k \in DOMAIN f THEN f[k] ELSE 0

\* m[k] += n
Inc(f, k, n) == Put(f, k, Get0(f, k) + n)

RECURSIVE SumOver(_, _)
SumOver(f, S) ==
    IF S = {} THEN 0
    ELSE LET k == CHOOSE x \in S : TRUE IN f[k] + SumOver(f, S \ {k})

\* all visiting orders of a finite set
Perms(S) ==
    { s \in [1..Cardinality(S) -> S] :
        \A i, j \in 1..Cardinality(S) : i # j => s[i] # s[j] }

(***************************************************************************)
(* internal/stats/types.go: constructors                                    *)
(***************************************************************************)
ZeroTime == 0

IsZero(t) == t = ZeroTime

ZeroShare == <<0, 1>>

NewPRStatistics ==
    [TotalMerges |-> 0, TotalPRs |-> 0, MergesByAuthor |-> EmptyMap,
     PRList |-> <<>>, DailyMerges |-> EmptyMap]

NewRepository ==
    [TotalCommits |-> 0, TotalAuthors |-> 0,
     Authors |-> EmptyMap, FileStats |-> EmptyMap, DirStats |-> EmptyMap,
     DailyActivity |-> EmptyMap,
     HourlyMatrix |-> EmptyMap,
     TotalAdditions |-> 0, TotalDeletions |-> 0, CodebaseSize |-> 0,
     PRStats |-> NewPRStatistics]

NewAuthorStats(name, email) ==
    [Name |-> name, Email |-> email, Commits |-> 0, Additions |-> 0,
     Deletions |-> 0, FilesTouched |-> EmptyMap,
     FirstCommit |-> ZeroTime, LastCommit |-> ZeroTime]

NewFileStats(path) ==
    [Path |-> path, TotalChanges |-> 0, TouchCount |-> 0, Authors |-> EmptyMap,
     Additions |-> 0, Deletions |-> 0]

NewDirStats(path) ==
    [Path |-> path, Authors |-> EmptyMap, TotalChanges |-> 0, TouchCount |-> 0]

NewDirAuthorStats(name, email) ==
    [Name |-> name, Email |-> email, Commits |-> 0, Changes |-> 0, Share |-> ZeroShare]

(***************************************************************************)
(* internal/stats/aggregator.go: time bucketing                             *)
(***************************************************************************)
\* c.AuthorDate.In(tz).Format("2006-01-02"): the calendar day
DateKey(t) == t \div HoursPerDay

\* time.Weekday: Sunday = 0; day 0 of the time line is a Monday
Weekday(t) == ((t \div HoursPerDay) + 1) % DaysPerWeek

Hour(t) == t % HoursPerDay

\* getTopDir: the first segment of a path with several, "." for a root file
getTopDir(path) == IF Len(path) > 1 THEN path[1] ELSE "."

(***************************************************************************)
(* internal/stats/aggregator.go: processMergeCommit (lines 489-541)         *)
(***************************************************************************)
RECURSIVE SumAdditions(_)
SumAdditions(fcs) ==
    IF fcs = <<>> THEN 0
    ELSE (IF Head(fcs).IsBinary THEN 0 ELSE Head(fcs).Additions) + SumAdditions(Tail(fcs))

RECURSIVE SumDeletions(_)
SumDeletions(fcs) ==
    IF fcs = <<>> THEN 0
    ELSE (IF Head(fcs).IsBinary THEN 0 ELSE Head(fcs).Deletions) + SumDeletions(Tail(fcs))

NewPRAuthorStats(name, email) ==
    [Name |-> name, Email |-> email, MergeCount |-> 0, TotalChanges |-> 0,
     PRNumbers |-> <<>>]

\* the merge statistics with every merge counted as an identified PR
processMergeCommit_CountsEveryMerge(prStats, c) ==
    LET additions == SumAdditions(c.FileChanges)
        deletions == SumDeletions(c.FileChanges)
        authorKey == c.Author.Email
        authorStats ==
            IF Has(prStats.MergesByAuthor, authorKey)
            THEN prStats.MergesByAuthor[authorKey]
            ELSE NewPRAuthorStats(c.Author.Name, c.Author.Email)
        authorStats2 ==
            [authorStats EXCEPT
                !.MergeCount = @ + 1,
                !.TotalChanges = @ + additions + deletions,
                !.PRNumbers = IF c.PRNumber > 0 THEN Append(@, c.PRNumber) ELSE @]
        prInfo ==
            [PRNumber |-> c.PRNumber, MergedBy |-> c.Author.Name,
             MergedByEmail |-> c.Author.Email, MergedAt |-> c.AuthorDate,
             Branch |-> c.MergeBranch, Subject |-> c.Subject,
             Additions |-> additions, Deletions |-> deletions,
             FilesCount |-> Len(c.FileChanges)]
    IN  [prStats EXCEPT
            !.TotalMerges = @ + 1,
            !.DailyMerges = Inc(@, DateKey(c.AuthorDate), 1),
            !.MergesByAuthor = Put(@, authorKey, authorStats2),
            !.TotalPRs = @ + 1,
            !.PRList = Append(@, prInfo)]

\* lines 489-541
processMergeCommit(prStats, c) ==
    LET additions == SumAdditions(c.FileChanges)
        deletions == SumDeletions(c.FileChanges)
        authorKey == c.Author.Email
        authorStats ==
            IF Has(prStats.MergesByAuthor, authorKey)
            THEN prStats.MergesByAuthor[authorKey]
            ELSE NewPRAuthorStats(c.Author.Name, c.Author.Email)
        authorStats2 ==
            [authorStats EXCEPT
                !.MergeCount = @ + 1,
                !.TotalChanges = @ + additions + deletions,
                !.PRNumbers = IF c.PRNumber > 0 THEN Append(@, c.PRNumber) ELSE @]
        prInfo ==
            [PRNumber |-> c.PRNumber, MergedBy |-> c.Author.Name,
             MergedByEmail |-> c.Author.Email, MergedAt |-> c.AuthorDate,
             Branch |-> c.MergeBranch, Subject |-> c.Subject,
             Additions |-> additions, Deletions |-> deletions,
             FilesCount |-> Len(c.FileChanges)]
    IN  [prStats EXCEPT
            !.TotalMerges = @ + 1,
            !.DailyMerges = Inc(@, DateKey(c.AuthorDate), 1),
            !.MergesByAuthor = Put(@, authorKey, authorStats2),
            !.TotalPRs = IF c.PRNumber > 0 THEN @ + 1 ELSE @,
            !.PRList = Append(@, prInfo)]

(***************************************************************************)
(* internal/stats/aggregator.go: ProcessCommit (lines 30-115)               *)
(***************************************************************************)
\* the header without the weekday-hour cell
ProcessCommitHeader_SkipsMatrix(r, c) ==
    LET r1 == [r EXCEPT !.TotalCommits = @ + 1]
        r2 == IF c.IsMerge
              THEN [r1 EXCEPT !.PRStats = processMergeCommit(@, c)]
              ELSE r1
        authorKey == c.Author.Email
        ok == Has(r2.Authors, authorKey)
        author == IF ok THEN r2.Authors[authorKey]
                  ELSE NewAuthorStats(c.Author.Name, c.Author.Email)
        first == IF IsZero(author.FirstCommit) \/ c.AuthorDate < author.FirstCommit
                 THEN c.AuthorDate ELSE author.FirstCommit
        last == IF c.AuthorDate > author.LastCommit
                THEN c.AuthorDate ELSE author.LastCommit
        author2 == [author EXCEPT !.Commits = @ + 1,
                                  !.FirstCommit = first,
                                  !.LastCommit = last]
    IN  [r2 EXCEPT
            !.Authors = Put(@, authorKey, author2),
            !.TotalAuthors = IF ok THEN @ ELSE @ + 1,
            !.DailyActivity = Inc(@, DateKey(c.AuthorDate), 1)]

\* lines 30-65: counters, merge statistics, the author accumulator, the time
\* buckets
ProcessCommitHeader(r, c) ==
    LET r1 == [r EXCEPT !.TotalCommits = @ + 1]
        r2 == IF c.IsMerge
              THEN [r1 EXCEPT !.PRStats = processMergeCommit(@, c)]
              ELSE r1
        authorKey == c.Author.Email
        ok == Has(r2.Authors, authorKey)
        author == IF ok THEN r2.Authors[authorKey]
                  ELSE NewAuthorStats(c.Author.Name, c.Author.Email)
        first == IF IsZero(author.FirstCommit) \/ c.AuthorDate < author.FirstCommit
                 THEN c.AuthorDate ELSE author.FirstCommit
        last == IF c.AuthorDate > author.LastCommit
                THEN c.AuthorDate ELSE author.LastCommit
        author2 == [author EXCEPT !.Commits = @ + 1,
                                  !.FirstCommit = first,
                                  !.LastCommit = last]
        weekday == (Weekday(c.AuthorDate) + 6) % DaysPerWeek
        hour == Hour(c.AuthorDate)
    IN  [r2 EXCEPT
            !.Authors = Put(@, authorKey, author2),
            !.TotalAuthors = IF ok THEN @ ELSE @ + 1,
            !.DailyActivity = Inc(@, DateKey(c.AuthorDate), 1),
            !.HourlyMatrix = Inc(@, <<weekday, hour>>, 1)]

\* the loop body without the skip of binary changes (lines 69-71)
ProcessFileChange_CountsBinary(r, c, fc) ==
    LET email == c.Author.Email
        path == fc.FilePath
        author == [r.Authors[email] EXCEPT !.FilesTouched = Inc(@, path, 1)]
        fileStat == IF Has(r.FileStats, path) THEN r.FileStats[path]
                    ELSE NewFileStats(path)
        fileStat2 == [fileStat EXCEPT
                         !.TouchCount = @ + 1,
                         !.Authors = Inc(@, email, 1)]
    IN  [r EXCEPT
            !.Authors = Put(@, email, author),
            !.FileStats = Put(@, path, fileStat2)]

\* lines 68-114: one iteration of the loop over c.FileChanges
ProcessFileChange(r, c, fc) ==
    IF fc.IsBinary THEN r
    ELSE
    LET email == c.Author.Email
        path == fc.FilePath
        changes == fc.Additions + fc.Deletions
        author == [r.Authors[email] EXCEPT
                      !.Additions = @ + fc.Additions,
                      !.Deletions = @ + fc.Deletions,
                      !.FilesTouched = Inc(@, path, 1)]
        fileStat == IF Has(r.FileStats, path) THEN r.FileStats[path]
                    ELSE NewFileStats(path)
        fileStat2 == [fileStat EXCEPT
                         !.Additions = @ + fc.Additions,
                         !.Deletions = @ + fc.Deletions,
                         !.TotalChanges = @ + changes,
                         !.TouchCount = @ + 1,
                         !.Authors = Inc(@, email, 1)]
        dir == getTopDir(path)
        dirStat == IF Has(r.DirStats, dir) THEN r.DirStats[dir]
                   ELSE NewDirStats(dir)
        dirAuthor == IF Has(dirStat.Authors, email) THEN dirStat.Authors[email]
                     ELSE NewDirAuthorStats(c.Author.Name, c.Author.Email)
        dirAuthor2 == [dirAuthor EXCEPT !.Commits = @ + 1,
                                        !.Changes = @ + changes]
        dirStat2 == [dirStat EXCEPT
                        !.TotalChanges = @ + changes,
                        !.TouchCount = @ + 1,
                        !.Authors = Put(@, email, dirAuthor2)]
    IN  [r EXCEPT
            !.Authors = Put(@, email, author),
            !.TotalAdditions = @ + fc.Additions,
            !.TotalDeletions = @ + fc.Deletions,
            !.FileStats = Put(@, path, fileStat2),
            !.DirStats = Put(@, dir, dirStat2)]

RECURSIVE ProcessFileChanges(_, _, _)
ProcessFileChanges(r, c, fcs) ==
    IF fcs = <<>> THEN r
    ELSE ProcessFileChanges(ProcessFileChange(r, c, Head(fcs)), c, Tail(fcs))

ProcessCommit(r, c) ==
    ProcessFileChanges(ProcessCommitHeader(r, c), c, c.FileChanges)

\* Finalize (lines 118-129): the ownership shares of every directory
Share(changes, total) == <<changes * 100, total>>

RecalculateShares(dirStat) ==
    IF dirStat.TotalChanges > 0
    THEN [dirStat EXCEPT !.Authors =
            [e \in DOMAIN dirStat.Authors |->
                [dirStat.Authors[e] EXCEPT
                    !.Share = Share(dirStat.Authors[e].Changes, dirStat.TotalChanges)]]]
    ELSE dirStat

Finalize(r) ==
    [r EXCEPT !.DirStats = [d \in DOMAIN r.DirStats |-> RecalculateShares(r.DirStats[d])]]

(***************************************************************************)
(* internal/stats/aggregator.go: ApplyAuthorMerges (lines 390-486)          *)
(***************************************************************************)
\* the keys of the merge map that are not primaries; the loops skip the rest
AliasKeys(merges) == {k \in DOMAIN merges : merges[k] # k}

MinTime(a, b) == IF a < b THEN a ELSE b

MaxTime(a, b) == IF a > b THEN a ELSE b

RECURSIVE AddCounts(_, _, _)
\* for file, count := range alias.FilesTouched { primary.FilesTouched[file] += count }
AddCounts(into, from, keys) ==
    IF keys = {} THEN into
    ELSE LET k == CHOOSE x \in keys : TRUE
         IN  AddCounts(Inc(into, k, from[k]), from, keys \ {k})

\* the author loop without the decrement of TotalAuthors
MergeAuthorEntry_KeepsCounter(st, aliasEmail, primaryEmail) ==
    IF aliasEmail = primaryEmail THEN st
    ELSE IF ~Has(st.Authors, aliasEmail) \/ ~Has(st.Authors, primaryEmail) THEN st
    ELSE
    LET alias == st.Authors[aliasEmail]
        primary == st.Authors[primaryEmail]
        primary2 ==
            [primary EXCEPT
                !.Commits = @ + alias.Commits,
                !.Additions = @ + alias.Additions,
                !.Deletions = @ + alias.Deletions,
                !.FilesTouched = AddCounts(@, alias.FilesTouched, DOMAIN alias.FilesTouched),
                !.FirstCommit = MinTime(alias.FirstCommit, @),
                !.LastCommit = MaxTime(alias.LastCommit, @)]
    IN  [Authors |-> Del(Put(st.Authors, primaryEmail, primary2), aliasEmail),
         TotalAuthors |-> st.TotalAuthors]

\* the author loop without the transfer of the alias's deletions
MergeAuthorEntry_DropsDeletions(st, aliasEmail, primaryEmail) ==
    IF aliasEmail = primaryEmail THEN st
    ELSE IF ~Has(st.Authors, aliasEmail) \/ ~Has(st.Authors, primaryEmail) THEN st
    ELSE
    LET alias == st.Authors[aliasEmail]
        primary == st.Authors[primaryEmail]
        primary2 ==
            [primary EXCEPT
                !.Commits = @ + alias.Commits,
                !.Additions = @ + alias.Additions,
                !.FilesTouched = AddCounts(@, alias.FilesTouched, DOMAIN alias.FilesTouched),
                !.FirstCommit = MinTime(alias.FirstCommit, @),
                !.LastCommit = MaxTime(alias.LastCommit, @)]
    IN  [Authors |-> Del(Put(st.Authors, primaryEmail, primary2), aliasEmail),
         TotalAuthors |-> st.TotalAuthors - 1]

\* lines 404-437: one iteration of the loop over the merge map; st is the
\* author index with its counter, [Authors, TotalAuthors]
MergeAuthorEntry(st, aliasEmail, primaryEmail) ==
    IF aliasEmail = primaryEmail THEN st
    ELSE IF ~Has(st.Authors, aliasEmail) \/ ~Has(st.Authors, primaryEmail) THEN st
    ELSE
    LET alias == st.Authors[aliasEmail]
        primary == st.Authors[primaryEmail]
        primary2 ==
            [primary EXCEPT
                !.Commits = @ + alias.Commits,
                !.Additions = @ + alias.Additions,
                !.Deletions = @ + alias.Deletions,
                !.FilesTouched = AddCounts(@, alias.FilesTouched, DOMAIN alias.FilesTouched),
                !.FirstCommit = MinTime(alias.FirstCommit, @),
                !.LastCommit = MaxTime(alias.LastCommit, @)]
    IN  [Authors |-> Del(Put(st.Authors, primaryEmail, primary2), aliasEmail),
         TotalAuthors |-> st.TotalAuthors - 1]

RECURSIVE MergeAuthors(_, _, _)
MergeAuthors(st, merges, order) ==
    IF order = <<>> THEN st
    ELSE MergeAuthors(MergeAuthorEntry(st, Head(order), merges[Head(order)]),
                      merges, Tail(order))

\* the file loop without the removal of the alias key
RekeyFileAuthor_KeepsAlias(fileStat, aliasEmail, primaryEmail) ==
    IF aliasEmail = primaryEmail THEN fileStat
    ELSE IF Has(fileStat.Authors, aliasEmail)
    THEN [fileStat EXCEPT !.Authors = Inc(@, primaryEmail, @[aliasEmail])]
    ELSE fileStat

\* lines 441-449: one iteration of the inner loop over the merge map
RekeyFileAuthor(fileStat, aliasEmail, primaryEmail) ==
    IF aliasEmail = primaryEmail THEN fileStat
    ELSE IF Has(fileStat.Authors, aliasEmail)
    THEN [fileStat EXCEPT
            !.Authors = Del(Inc(@, primaryEmail, @[aliasEmail]), aliasEmail)]
    ELSE fileStat

RECURSIVE RekeyFile(_, _, _)
RekeyFile(fileStat, merges, order) ==
    IF order = <<>> THEN fileStat
    ELSE RekeyFile(RekeyFileAuthor(fileStat, Head(order), merges[Head(order)]),
                   merges, Tail(order))

\* the directory loop without the transfer of the alias's changed lines
MergeDirAuthor_DropsChanges(dirStat, aliasEmail, primaryEmail) ==
    IF aliasEmail = primaryEmail THEN dirStat
    ELSE IF ~Has(dirStat.Authors, aliasEmail) THEN dirStat
    ELSE
    LET alias == dirStat.Authors[aliasEmail]
    IN  IF ~Has(dirStat.Authors, primaryEmail)
        THEN [dirStat EXCEPT
                !.Authors = Del(Put(@, primaryEmail,
                                    [alias EXCEPT !.Email = primaryEmail]),
                                aliasEmail)]
        ELSE [dirStat EXCEPT
                !.Authors = Del([@ EXCEPT
                                    ![primaryEmail].Commits = @ + alias.Commits],
                                aliasEmail)]

\* lines 454-477: one iteration of the inner loop over the merge map
MergeDirAuthor(dirStat, aliasEmail, primaryEmail) ==
    IF aliasEmail = primaryEmail THEN dirStat
    ELSE IF ~Has(dirStat.Authors, aliasEmail) THEN dirStat
    ELSE
    LET alias == dirStat.Authors[aliasEmail]
    IN  IF ~Has(dirStat.Authors, primaryEmail)
        THEN [dirStat EXCEPT
                !.Authors = Del(Put(@, primaryEmail,
                                    [alias EXCEPT !.Email = primaryEmail]),
                                aliasEmail)]
        ELSE [dirStat EXCEPT
                !.Authors = Del([@ EXCEPT
                                    ![primaryEmail].Commits = @ + alias.Commits,
                                    ![primaryEmail].Changes = @ + alias.Changes],
                                aliasEmail)]

RECURSIVE MergeDirAuthors(_, _, _)
MergeDirAuthors(dirStat, merges, order) ==
    IF order = <<>> THEN dirStat
    ELSE MergeDirAuthors(MergeDirAuthor(dirStat, Head(order), merges[Head(order)]),
                         merges, Tail(order))

\* the directory loop recounting the touches as the number of authors left
MergeDir_RecountsTouches(dirStat, merges, order) ==
    LET d == RecalculateShares(MergeDirAuthors(dirStat, merges, order))
    IN  [d EXCEPT !.TouchCount = Cardinality(DOMAIN d.Authors)]

\* lines 453-485: the body of the loop over r.DirStats for one directory
MergeDir(dirStat, merges, order) ==
    RecalculateShares(MergeDirAuthors(dirStat, merges, order))

\* the maps a loop over the entries of index can leave, each entry being
\* processed under a visiting order of its own
RECURSIVE Choices(_, _)
\* the maps over keys that take at each key one of the values of res[key]
Choices(res, keys) ==
    IF keys = {} THEN {EmptyMap}
    ELSE LET k == CHOOSE x \in keys : TRUE
         IN  {Put(g, k, v) : g \in Choices(res, keys \ {k}), v \in res[k]}

\* lines 440-450: the file index after the file loop, each file's inner loop
\* in an order of its own
FileResults(index, merges) ==
    LET orders == Perms(AliasKeys(merges))
        res == [k \in DOMAIN index |-> {RekeyFile(index[k], merges, o) : o \in orders}]
    IN  Choices(res, DOMAIN index)

\* lines 453-485: the directory index after the directory loop
DirResults(index, merges) ==
    LET orders == Perms(AliasKeys(merges))
        res == [k \in DOMAIN index |-> {MergeDir(index[k], merges, o) : o \in orders}]
    IN  Choices(res, DOMAIN index)

\* every model ApplyAuthorMerges(merges) can leave, over the visiting orders
ApplyAuthorMerges(r, merges) ==
    IF DOMAIN merges = {} THEN {r}
    ELSE
    LET orders == Perms(AliasKeys(merges))
        st0 == [Authors |-> r.Authors, TotalAuthors |-> r.TotalAuthors]
    IN  { [r EXCEPT !.Authors = st.Authors,
                    !.TotalAuthors = st.TotalAuthors,
                    !.FileStats = fs,
                    !.DirStats = ds] :
            st \in {MergeAuthors(st0, merges, o) : o \in orders},
            fs \in FileResults(r.FileStats, merges),
            ds \in DirResults(r.DirStats, merges) }

(***************************************************************************)
(* internal/git/parser.go: the line-oriented parser.  A line is a string;   *)
(* the library conversions (strings.Fields, strings.Split, strconv.Atoi,    *)
(* time.Parse, the two regular expressions) are tabulated on the lines the  *)
(* log source of this model can emit.                                       *)
(***************************************************************************)
commitStart == "COMMIT_START"

commitEnd == "COMMIT_END"

PRSubject == "Merge pull request #42 from team/feature-x"

BranchSubject == "Merge branch 'feature' into main"

DateLine == "0001-01-02T10:00:00Z"

\* time.Parse(time.RFC3339, line); the zero time when the line does not parse
ParseTime(line) == IF line = DateLine THEN 34 ELSE ZeroTime

\* strings.Fields(line)
Fields(line) ==
    CASE line = "" -> <<>>
      [] line = "p1 p2" -> <<"p1", "p2">>
      [] line = "p1 p2 p3" -> <<"p1", "p2", "p3">>
      [] OTHER -> <<line>>

\* prNumberRegex.FindStringSubmatch(line), converted by strconv.Atoi; 0
\* without a match
PRNumberOf(line) == IF line = PRSubject THEN 42 ELSE 0

\* mergeBranchRegex.FindStringSubmatch(line)[1]; "" without a match
MergeBranchOf(line) ==
    CASE line = PRSubject -> "team/feature-x"
      [] line = BranchSubject -> "feature"
      [] OTHER -> ""

\* strings.Split(line, "\t")
SplitTab(line) ==
    CASE line = "2\t1\tmain.go" -> <<"2", "1", "main.go">>
      [] line = "1\t0\tsrc/a.go" -> <<"1", "0", "src/a.go">>
      [] line = "-\t-\tsrc/logo.png" -> <<"-", "-", "src/logo.png">>
      [] line = "1\tmain.go" -> <<"1", "main.go">>
      [] OTHER -> <<line>>

\* strconv.Atoi(s) with its error dropped: 0 for what is no number
Atoi(s) ==
    CASE s = "1" -> 1
      [] s = "2" -> 2
      [] OTHER -> 0

\* a path string as the sequence of its segments
PathOf(s) ==
    CASE s = "main.go" -> MainGo
      [] s = "src/a.go" -> SrcA
      [] s = "src/logo.png" -> SrcLogo
      [] OTHER -> <<s>>

\* &Commit{}
EmptyCommit ==
    [Hash |-> "", ShortHash |-> "", Author |-> [Name |-> "", Email |-> ""],
     AuthorDate |-> ZeroTime, Subject |-> "", FileChanges |-> <<>>,
     IsMerge |-> FALSE, PRNumber |-> 0, MergeBranch |-> ""]

\* the header parser reading the subject of every commit for a PR number
parseCommitLine_IgnoresMergeFlag(c, lineNum, line) ==
    CASE lineNum = 0 -> [c EXCEPT !.Hash = line]
      [] lineNum = 1 -> [c EXCEPT !.ShortHash = line]
      [] lineNum = 2 -> [c EXCEPT !.Author.Name = line]
      [] lineNum = 3 -> [c EXCEPT !.Author.Email = line]
      [] lineNum = 4 -> [c EXCEPT !.AuthorDate = ParseTime(line)]
      [] lineNum = 5 -> [c EXCEPT !.IsMerge = Len(Fields(line)) >= 2]
      [] lineNum = 6 ->
            [c EXCEPT !.Subject = line,
                      !.PRNumber = PRNumberOf(line),
                      !.MergeBranch = MergeBranchOf(line)]
      [] OTHER -> c

\* parseCommitLine (lines 171-199)
parseCommitLine(c, lineNum, line) ==
    CASE lineNum = 0 -> [c EXCEPT !.Hash = line]
      [] lineNum = 1 -> [c EXCEPT !.ShortHash = line]
      [] lineNum = 2 -> [c EXCEPT !.Author.Name = line]
      [] lineNum = 3 -> [c EXCEPT !.Author.Email = line]
      [] lineNum = 4 -> [c EXCEPT !.AuthorDate = ParseTime(line)]
      [] lineNum = 5 -> [c EXCEPT !.IsMerge = Len(Fields(line)) >= 2]
      [] lineNum = 6 ->
            IF c.IsMerge
            THEN [c EXCEPT !.Subject = line,
                           !.PRNumber = PRNumberOf(line),
                           !.MergeBranch = MergeBranchOf(line)]
            ELSE [c EXCEPT !.Subject = line]
      [] OTHER -> c

\* parseNumstat (lines 201-217): <<fc>>, or <<>> for nil
parseNumstat(line) ==
    LET parts == SplitTab(line)
    IN  IF Len(parts) # 3 THEN <<>>
        ELSE IF parts[1] = "-"
        THEN <<BinFC(PathOf(parts[3]))>>
        ELSE <<FC(PathOf(parts[3]), Atoi(parts[1]), Atoi(parts[2]))>>

\* the locals of Parse (lines 94-99); current is <<>> for nil, <<c>> for &c
ParseLocals ==
    [current |-> <<>>, lineNum |-> 0, commitCount |-> 0,
     inNumstat |-> FALSE, seenNumstatContent |-> FALSE]

ScanProgress(count, hash, done) ==
    [CommitsParsed |-> count, CurrentHash |-> hash, Done |-> done]

\* the locals after a step, the commits handed to onCommit and the events
\* handed to onProgress by it
Step(loc, commits, events) == [ps |-> loc, commits |-> commits, events |-> events]

\* lines 101-146: the body of the scanner loop for one line
ParseLine(loc, line) ==
    CASE line = commitStart ->
            LET fresh == [loc EXCEPT !.current = <<EmptyCommit>>, !.lineNum = 0,
                                    !.inNumstat = FALSE,
                                    !.seenNumstatContent = FALSE]
            IN  IF loc.current # <<>>
                THEN Step([fresh EXCEPT !.commitCount = loc.commitCount + 1],
                          loc.current,
                          <<ScanProgress(loc.commitCount + 1,
                                         loc.current[1].ShortHash, FALSE)>>)
                ELSE Step(fresh, <<>>, <<>>)
      [] line = commitEnd ->
            Step([loc EXCEPT !.inNumstat = TRUE, !.seenNumstatContent = FALSE],
                 <<>>, <<>>)
      [] line \notin {commitStart, commitEnd} /\ loc.current # <<>> /\ ~loc.inNumstat ->
            Step([loc EXCEPT
                    !.current = <<parseCommitLine(loc.current[1], loc.lineNum, line)>>,
                    !.lineNum = @ + 1],
                 <<>>, <<>>)
      [] line \notin {commitStart, commitEnd} /\ loc.current # <<>> /\ loc.inNumstat ->
            IF line = "" THEN Step(loc, <<>>, <<>>)
            ELSE LET fc == parseNumstat(line)
                 IN  IF fc # <<>>
                     THEN Step([loc EXCEPT
                                  !.current[1].FileChanges = @ \o fc,
                                  !.seenNumstatContent = TRUE],
                               <<>>, <<>>)
                     ELSE Step(loc, <<>>, <<>>)
      [] OTHER -> Step(loc, <<>>, <<>>)

\* lines 148-166: after the scanner loop
EndOfInput(loc) ==
    IF loc.current # <<>>
    THEN Step([loc EXCEPT !.commitCount = @ + 1],
              loc.current,
              <<ScanProgress(loc.commitCount + 1, loc.current[1].ShortHash, TRUE),
                ScanProgress(loc.commitCount + 1, "", TRUE)>>)
    ELSE Step(loc, <<>>, <<ScanProgress(loc.commitCount, "", TRUE)>>)

(***************************************************************************)
(* The log source: git log --format=... --numstat (lines 67-92).  It emits  *)
(* records of a start sentinel, 7 header lines, an end sentinel and numstat *)
(* lines; it exits with success after a whole number of records, or fails   *)
(* or is killed (context cancelled, exec.CommandContext) at any line.       *)
(***************************************************************************)
HeaderLines == 7

MaxRecords == 2

MaxNumstat == 1

Hashes == <<"H1", "H2", "H3", "H4">>

ShortHashes == <<"s1", "s2", "s3", "s4">>

\* what the source has emitted: pos 0 before the first record, 1..7 the
\* number of the header line due next, 8 the end sentinel due, 9 in the
\* numstat section; records counts the start sentinels, numstat the lines of
\* the current numstat section, kind holds the header fields of the current
\* record
NoKind == [name |-> "", email |-> "", parents |-> "", subject |-> ""]

NewSource == [pos |-> 0, records |-> 0, numstat |-> 0, kind |-> NoKind]

\* the header line the source emits at position pos
HeaderLine(s, pos) ==
    CASE pos = 1 -> Hashes[s.records]
      [] pos = 2 -> ShortHashes[s.records]
      [] pos = 3 -> s.kind.name
      [] pos = 4 -> s.kind.email
      [] pos = 5 -> DateLine
      [] pos = 6 -> s.kind.parents
      [] pos = 7 -> s.kind.subject

\* the lines the source can emit next, each with the source after it
SourceNext(s, kinds, numstatLines) ==
    (IF s.pos \in {0, HeaderLines + 2} /\ s.records < MaxRecords
     THEN {[line |-> commitStart,
            src |-> [pos |-> 1, records |-> s.records + 1, numstat |-> 0,
                     kind |-> k]] : k \in kinds}
     ELSE {})
    \cup
    (IF s.pos \in 1..HeaderLines
     THEN {[line |-> HeaderLine(s, s.pos), src |-> [s EXCEPT !.pos = @ + 1]]}
     ELSE {})
    \cup
    (IF s.pos = HeaderLines + 1
     THEN {[line |-> commitEnd, src |-> [s EXCEPT !.pos = @ + 1]]}
     ELSE {})
    \cup
    (IF s.pos = HeaderLines + 2 /\ s.numstat < MaxNumstat
     THEN {[line |-> l, src |-> [s EXCEPT !.numstat = @ + 1]] : l \in numstatLines}
     ELSE {})

\* the source has emitted whole records only
SourceComplete(s) == s.pos \in {0, HeaderLines + 2}

(***************************************************************************)
(* The aggregation engine and the identity merge operator as a state        *)
(* machine.  In the application (internal/ui/app.go) a model is built by    *)
(* one scan, ProcessCommit for every commit and then Finalize (line 194),   *)
(* and ApplyAuthorMerges is applied to the finalized model only (line 74:   *)
(* repoStats is set by Finalize); a rescan starts from a new Aggregator.    *)
(***************************************************************************)
MkCommit(a, t, fcs) ==
    [Hash |-> "h", ShortHash |-> "s", Author |-> a, AuthorDate |-> t,
     Subject |-> "fix", FileChanges |-> fcs,
     IsMerge |-> FALSE, PRNumber |-> 0, MergeBranch |-> ""]

MkMergeCommit(a, t, fcs) ==
    [Hash |-> "h", ShortHash |-> "s", Author |-> a, AuthorDate |-> t,
     Subject |-> "Merge pull request #42 from team/feature-x", FileChanges |-> fcs,
     IsMerge |-> TRUE, PRNumber |-> 42, MergeBranch |-> "team/feature-x"]

FileChangeLists ==
    { <<FC(MainGo, 2, 1)>>,
      <<FC(SrcA, 1, 0)>>,
      <<FC(SrcA, 0, 0), BinFC(SrcLogo)>> }

\* plain commits with numstat lines, and merge commits, which git log
\* --numstat lists without any
CommitInputs ==
    {MkCommit(a, 34, fcs) : a \in AuthorIds, fcs \in FileChangeLists}
    \cup {MkMergeCommit(a, 59, <<>>) : a \in AuthorIds}

\* every alias->primary map over a set of emails, well-formed or not
MergeMapsOver(E) == UNION {[D -> E] : D \in SUBSET E}

MergeMaps == MergeMapsOver(Emails)

\* the documented input: a primary maps to itself, every other key is an
\* alias of a primary
WellFormed(merges) == \A k \in DOMAIN merges : Has(merges, merges[k]) /\ merges[merges[k]] = merges[k]

WellFormedMaps == {m \in MergeMaps : WellFormed(m)}

InitAgg ==
    /\ repo = NewRepository
    /\ lastOp = "new"
    /\ mergedNow = {}
    /\ obsAdd = 0
    /\ obsDel = 0

InitParse ==
    /\ src = NewSource
    /\ ps = ParseLocals
    /\ pc = "idle"
    /\ retErr = "none"
    /\ delivered = <<>>
    /\ progress = <<>>

InitScan ==
    /\ page = "setup"
    /\ scanIdx = 0
    /\ parsed = {}
    /\ failed = {}
    /\ codebase = 0
    /\ finalizeCalls = 0

InitHist ==
    /\ observed = <<>>
    /\ owner = [e \in Emails |-> e]

\* no resolver has been called
NoResult == [fn |-> "", out |-> <<>>, shared |-> FALSE]

InitQuery == held = NoResult

\* NewAuthorsView (authors.go 36-44), before the first Refresh
InitView ==
    /\ pending = EmptyMap
    /\ selected = {}
    /\ cursor = ""
    /\ handed = <<>>

\* NewApp (app.go 33-53): no goroutine started, nothing queued
InitApp ==
    /\ threads = {}
    /\ updates = <<>>
    /\ uiPc = "idle"
    /\ spawned = 0

\* the sortCol each constructor sets (part_004 25, part_000 26,
\* hotspots.go 26, pullrequests.go 29)
DefaultSortCol(view) ==
    CASE view = "Leaderboard" -> 2
      [] view = "Top Files" -> 2
      [] view = "Hotspots" -> 5
      [] view = "Pull Requests" -> 1

InitSort ==
    /\ sortCol = [v \in SortableViews |-> DefaultSortCol(v)]
    /\ showPRs = FALSE

Init == InitAgg /\ InitParse /\ InitScan /\ InitHist /\ InitQuery /\ InitView /\ InitApp /\ InitSort

ObserveFrom(commits) ==
    /\ repo.TotalCommits < MaxCommits
    /\ \E c \in commits :
        /\ repo' = ProcessCommit(repo, c)
        /\ obsAdd' = obsAdd + SumAdditions(c.FileChanges)
        /\ obsDel' = obsDel + SumDeletions(c.FileChanges)
    /\ lastOp' = "commit"
    /\ mergedNow' = {}

MergeFrom(maps) ==
    /\ \E merges \in maps :
        \E r2 \in ApplyAuthorMerges(repo, merges) :
            /\ repo' = r2
            /\ mergedNow' = (DOMAIN repo.Authors) \ (DOMAIN r2.Authors)
    /\ lastOp' = "merge"
    /\ UNCHANGED <<obsAdd, obsDel>>

Observe ==
    /\ lastOp \in {"new", "commit"}
    /\ ObserveFrom(CommitInputs)
    /\ UNCHANGED <<parseVars, scanVars, histVars, queryVars, viewVars, appVars, sortVars>>

DoFinalize ==
    /\ lastOp \in {"new", "commit"}
    /\ repo' = Finalize(repo)
    /\ lastOp' = "finalize"
    /\ mergedNow' = {}
    /\ UNCHANGED <<obsAdd, obsDel, parseVars, scanVars, histVars, queryVars, viewVars, appVars, sortVars>>

Merge ==
    /\ lastOp \in {"finalize", "merge"}
    /\ MergeFrom(WellFormedMaps)
    /\ UNCHANGED <<parseVars, scanVars, histVars, queryVars, viewVars, appVars, sortVars>>

Next == Observe \/ DoFinalize \/ Merge

Spec == Init /\ [][Next]_vars

(***************************************************************************)
(* Sums over the indices of a model                                         *)
(***************************************************************************)
SumCommits(index) ==
    SumOver([k \in DOMAIN index |-> index[k].Commits], DOMAIN index)

SumAdditionsOf(index) ==
    SumOver([k \in DOMAIN index |-> index[k].Additions], DOMAIN index)

SumDeletionsOf(index) ==
    SumOver([k \in DOMAIN index |-> index[k].Deletions], DOMAIN index)

PreMerge == lastOp # "merge"

\* the emails with an author accumulator
AuthorKeys(r) == DOMAIN r.Authors

\* the emails keyed in some file's per-author touch map
FileAuthorKeys(r) == UNION {DOMAIN r.FileStats[f].Authors : f \in DOMAIN r.FileStats}

\* the emails keyed in some directory's per-author map
DirAuthorKeys(r) == UNION {DOMAIN r.DirStats[d].Authors : d \in DOMAIN r.DirStats}

(***************************************************************************)
(* C1: ApplyAuthorMerges is idempotent: on every model built by             *)
(* ProcessCommit calls (finalized or not) and for every well-formed map,    *)
(* whatever the visiting orders, applying the map to the merged model       *)
(* leaves the merged model as it is.                                        *)
(***************************************************************************)
IdempotentOn(r, merges) ==
    \A r2 \in ApplyAuthorMerges(r, merges) :
        \A r3 \in ApplyAuthorMerges(r2, merges) : r3 = r2

C1_MergeIdempotent ==
    PreMerge => \A merges \in WellFormedMaps : IdempotentOn(repo, merges)

\* a merge has folded an alias into its primary and re-keyed a file entry
C1_Witness ==
    /\ lastOp = "merge"
    /\ mergedNow # {}
    /\ \E f \in DOMAIN repo.FileStats :
        \E e \in DOMAIN repo.FileStats[f].Authors : repo.FileStats[f].Authors[e] > 1

(***************************************************************************)
(* C2: an entry alias->primary whose alias or primary has no author         *)
(* accumulator is skipped entirely: the author, file and directory entries  *)
(* keyed by the alias are left as they were.                                *)
(***************************************************************************)
EntriesOf(r, e) ==
    [author |-> IF Has(r.Authors, e) THEN <<r.Authors[e]>> ELSE <<>>,
     files |-> [f \in DOMAIN r.FileStats |->
                    IF Has(r.FileStats[f].Authors, e)
                    THEN <<r.FileStats[f].Authors[e]>> ELSE <<>>],
     dirs |-> [d \in DOMAIN r.DirStats |->
                    IF Has(r.DirStats[d].Authors, e)
                    THEN <<[Commits |-> r.DirStats[d].Authors[e].Commits,
                            Changes |-> r.DirStats[d].Authors[e].Changes]>>
                    ELSE <<>>]]

C2_SkippedEntryUntouched ==
    PreMerge =>
        \A merges \in WellFormedMaps :
            \A r2 \in ApplyAuthorMerges(repo, merges) :
                \A k \in AliasKeys(merges) :
                    (~Has(repo.Authors, k) \/ ~Has(repo.Authors, merges[k]))
                        => EntriesOf(r2, k) = EntriesOf(repo, k)

(***************************************************************************)
(* C3: after a merge no index holds an entry keyed by the email of an       *)
(* alias that was merged: not the author map, no file's and no directory's  *)
(* per-author map, not PRStats.MergesByAuthor, no merge record.             *)
(***************************************************************************)
C3_AliasGoneEverywhere ==
    lastOp = "merge" =>
        \A e \in mergedNow :
            /\ e \notin AuthorKeys(repo)
            /\ e \notin FileAuthorKeys(repo)
            /\ e \notin DirAuthorKeys(repo)
            /\ e \notin DOMAIN repo.PRStats.MergesByAuthor
            /\ \A i \in 1..Len(repo.PRStats.PRList) :
                    repo.PRStats.PRList[i].MergedByEmail # e

(***************************************************************************)
(* C4: the total-author count always equals the number of author            *)
(* accumulators; ApplyAuthorMerges, for any map and visiting order, removes *)
(* only aliases, lowers the count by the number of accumulators it removed  *)
(* (for a well-formed map: the aliases whose alias and primary were both    *)
(* present) and keeps the sum of the authors' commit counts.                *)
(***************************************************************************)
BothPresent(r, merges) ==
    {k \in AliasKeys(merges) : Has(r.Authors, k) /\ Has(r.Authors, merges[k])}

MergeCountsOn(r, merges) ==
    \A r2 \in ApplyAuthorMerges(r, merges) :
        LET gone == AuthorKeys(r) \ AuthorKeys(r2)
        IN  /\ gone \subseteq BothPresent(r, merges)
            /\ AuthorKeys(r2) \subseteq AuthorKeys(r)
            /\ r2.TotalAuthors = r.TotalAuthors - Cardinality(gone)
            /\ r2.TotalAuthors = Cardinality(AuthorKeys(r2))
            /\ WellFormed(merges) => gone = BothPresent(r, merges)
            /\ SumCommits(r2.Authors) = SumCommits(r.Authors)

C4_MergeCounts ==
    /\ repo.TotalAuthors = Cardinality(AuthorKeys(repo))
    /\ SumCommits(repo.Authors) = repo.TotalCommits
    /\ PreMerge => \A merges \in MergeMaps : MergeCountsOn(repo, merges)

\* a merge has removed two aliases at once
C4_Witness ==
    /\ lastOp = "merge"
    /\ Cardinality(mergedNow) = 2
    /\ repo.TotalAuthors = 1
    /\ repo.TotalCommits = 3

(***************************************************************************)
(* C10: the total additions and deletions equal the sums over the           *)
(* non-binary file changes observed, over the author accumulators and over  *)
(* the file accumulators, and ApplyAuthorMerges keeps these equalities.     *)
(***************************************************************************)
TotalsAgree(r) ==
    /\ SumAdditionsOf(r.Authors) = r.TotalAdditions
    /\ SumDeletionsOf(r.Authors) = r.TotalDeletions
    /\ SumAdditionsOf(r.FileStats) = r.TotalAdditions
    /\ SumDeletionsOf(r.FileStats) = r.TotalDeletions

C10_Totals ==
    /\ repo.TotalAdditions = obsAdd
    /\ repo.TotalDeletions = obsDel
    /\ TotalsAgree(repo)
    /\ PreMerge =>
        \A merges \in MergeMaps :
            \A r2 \in ApplyAuthorMerges(repo, merges) :
                /\ r2.TotalAdditions = obsAdd
                /\ r2.TotalDeletions = obsDel
                /\ TotalsAgree(r2)

\* a merged model that holds additions and deletions of several commits
C10_Witness ==
    /\ lastOp = "merge"
    /\ mergedNow # {}
    /\ repo.TotalAdditions >= 3
    /\ repo.TotalDeletions >= 1
    /\ \E e \in AuthorKeys(repo) : repo.Authors[e].Additions >= 3

(***************************************************************************)
(* One call of Parse (internal/git/parser.go, lines 63-169) on its own,     *)
(* with callbacks that record what they are handed.                         *)
(***************************************************************************)
\* the header fields of the records the source emits: a plain commit, a
\* merged pull request, and commits whose author name or subject is the text
\* of a sentinel
ParseKinds ==
    { [name |-> "Jo", email |-> "a@x.com", parents |-> "p1", subject |-> "fix"],
      [name |-> "Jo", email |-> "a@x.com", parents |-> "p1 p2", subject |-> PRSubject],
      [name |-> "Jo", email |-> "a@x.com", parents |-> "p1 p2", subject |-> BranchSubject],
      [name |-> "Jo", email |-> "a@x.com", parents |-> "p1 p2 p3", subject |-> "fix"],
      [name |-> "Jo", email |-> "a@x.com", parents |-> "p1", subject |-> PRSubject],
      [name |-> "Jo", email |-> "a@x.com", parents |-> "", subject |-> "fix"],
      [name |-> commitStart, email |-> "a@x.com", parents |-> "p1", subject |-> "fix"],
      [name |-> "Jo", email |-> "a@x.com", parents |-> "p1", subject |-> commitStart],
      [name |-> "Jo", email |-> "a@x.com", parents |-> "p1", subject |-> commitEnd] }

ParseNumstatLines == {"", "2\t1\tmain.go", "-\t-\tsrc/logo.png"}

\* a call of the commit callback, with the number of header lines read into
\* the commit and whether the end sentinel of its record was read
Delivery(c, loc) == [commit |-> c, headerLines |-> loc.lineNum, sawEnd |-> loc.inNumstat]

Deliveries(out, loc) ==
    IF out.commits = <<>> THEN <<>> ELSE <<Delivery(out.commits[1], loc)>>

InitP ==
    /\ InitAgg
    /\ InitScan
    /\ InitHist
    /\ InitQuery
    /\ InitView
    /\ InitApp
    /\ InitSort
    /\ src = NewSource
    /\ ps = ParseLocals
    /\ pc = "start"
    /\ retErr = "none"
    /\ delivered = <<>>
    /\ progress = <<>>

\* lines 82-92: StdoutPipe and cmd.Start succeed
PStart ==
    /\ pc = "start"
    /\ pc' = "scanning"
    /\ UNCHANGED <<src, ps, retErr, delivered, progress, aggVars, scanVars, histVars, queryVars, viewVars, appVars, sortVars>>

\* lines 85-92: StdoutPipe or cmd.Start fails and Parse returns the error
PStartFail ==
    /\ pc = "start"
    /\ pc' = "returned"
    /\ retErr' = "start failed"
    /\ UNCHANGED <<src, ps, delivered, progress, aggVars, scanVars, histVars, queryVars, viewVars, appVars, sortVars>>

\* one iteration of the scanner loop
PReadLine ==
    /\ pc = "scanning"
    /\ \E n \in SourceNext(src, ParseKinds, ParseNumstatLines) :
        LET out == ParseLine(ps, n.line)
        IN  /\ src' = n.src
            /\ ps' = out.ps
            /\ delivered' = delivered \o Deliveries(out, ps)
            /\ progress' = progress \o out.events
    /\ UNCHANGED <<pc, retErr, aggVars, scanVars, histVars, queryVars, viewVars, appVars, sortVars>>

\* the scanner reaches the end of the input; cmd.Wait gives err
PEnd(err) ==
    LET out == EndOfInput(ps)
    IN  /\ ps' = out.ps
        /\ delivered' = delivered \o Deliveries(out, ps)
        /\ progress' = progress \o out.events
        /\ pc' = "returned"
        /\ retErr' = err
        /\ UNCHANGED <<src, aggVars, scanVars, histVars, queryVars, viewVars, appVars, sortVars>>

\* git log exits with success after whole records
PSourceExit ==
    /\ pc = "scanning"
    /\ SourceComplete(src)
    /\ PEnd("nil")

\* git log fails at any line: cmd.Wait returns an *exec.ExitError
PSourceFail ==
    /\ pc = "scanning"
    /\ PEnd("exit status 128")

\* the context is cancelled: exec.CommandContext kills git at any line and
\* cmd.Wait returns an *exec.ExitError
PCancel ==
    /\ pc = "scanning"
    /\ PEnd("signal: killed")

NextP == PStart \/ PStartFail \/ PReadLine \/ PSourceExit \/ PSourceFail \/ PCancel

SpecParse == InitP /\ [][NextP]_vars

(***************************************************************************)
(* C5: every commit handed to the commit callback was built from a record   *)
(* whose 7 header lines and end sentinel were all read.                     *)
(***************************************************************************)
WholeRecord(d) == d.headerLines = HeaderLines /\ d.sawEnd

C5_NoHalfPopulatedCommit ==
    \A i \in 1..Len(delivered) : WholeRecord(delivered[i])

(***************************************************************************)
(* C6: when Parse has returned from reading an input stream (empty, whole,  *)
(* or cut by a failed source), the progress events have non-decreasing      *)
(* commit counts and exactly one of them has done = true, the last one.     *)
(***************************************************************************)
DoneEvents == {i \in 1..Len(progress) : progress[i].Done}

C6_OneTerminalProgressEvent ==
    (pc = "returned" /\ retErr # "start failed") =>
        /\ \A i \in 1..(Len(progress) - 1) :
                progress[i].CommitsParsed <= progress[i + 1].CommitsParsed
        /\ DoneEvents = {Len(progress)}
        /\ Len(progress) >= 1

(***************************************************************************)
(* C7: when the source has emitted n whole records and exited, the commit   *)
(* callback was called exactly n times, the i-th call with the commit of    *)
(* the i-th record.                                                         *)
(***************************************************************************)
C7_OneCommitPerRecord ==
    (pc = "returned" /\ retErr = "nil") =>
        /\ Len(delivered) = src.records
        /\ \A i \in 1..Len(delivered) : delivered[i].commit.Hash = Hashes[i]

(***************************************************************************)
(* C8: after a cancellation no commit built from a partly read record has   *)
(* been delivered, and what Parse returns differs from what it returns for  *)
(* a failed log source.                                                     *)
(***************************************************************************)
C8_CancelNeverMidRecord ==
    (pc = "returned" /\ retErr = "signal: killed") =>
        /\ \A i \in 1..Len(delivered) : WholeRecord(delivered[i])
        /\ retErr # "exit status 128"

(***************************************************************************)
(* The multi-repository scan (internal/ui/app.go, lines 96-203): one        *)
(* goroutine parses the repositories in turn into one Aggregator.  The      *)
(* context is context.Background(), so no Parse of a scan is cancelled.     *)
(***************************************************************************)
\* config.RepoPaths, each a git repository
RepoPaths == <<"/r/one", "/r/two">>

ScanKinds ==
    { [name |-> "Jo", email |-> "a@x.com", parents |-> "p1", subject |-> "fix"],
      [name |-> "Ann", email |-> "c@x.com", parents |-> "p1", subject |-> "fix"] }

ScanNumstatLines == {"2\t1\tmain.go"}

\* what git.GetCodebaseSize can return for a repository
CodebaseSizes == {0, 5}

InitS == InitAgg /\ InitParse /\ InitScan /\ InitHist /\ InitQuery /\ InitView /\ InitApp /\ InitSort

\* lines 158-161: a new Parser and the call of Parse for repository idx
BeginParse(idx) ==
    /\ scanIdx' = idx
    /\ src' = NewSource
    /\ ps' = ParseLocals
    /\ pc' = "start"
    /\ retErr' = "none"
    /\ parsed' = parsed \cup {idx}

\* onSetupComplete (lines 96-119) with valid repositories, and the start of
\* scanRepositories (lines 121-158)
SetupComplete ==
    /\ page = "setup"
    /\ Len(RepoPaths) > 0
    /\ page' = "progress"
    /\ repo' = NewRepository
    /\ lastOp' = "new"
    /\ delivered' = <<>>
    /\ BeginParse(1)
    /\ UNCHANGED <<mergedNow, obsAdd, obsDel, progress, failed, codebase, finalizeCalls, histVars, queryVars, viewVars, appVars, sortVars>>

SStart ==
    /\ page = "progress"
    /\ pc = "start"
    /\ pc' = "scanning"
    /\ UNCHANGED <<src, ps, retErr, delivered, progress, aggVars, scanVars, histVars, queryVars, viewVars, appVars, sortVars>>

SStartFail ==
    /\ page = "progress"
    /\ pc = "start"
    /\ pc' = "returned"
    /\ retErr' = "start failed"
    /\ UNCHANGED <<src, ps, delivered, progress, aggVars, scanVars, histVars, queryVars, viewVars, appVars, sortVars>>

\* the commit callback of the scan (lines 170-172): ProcessCommit
RECURSIVE ProcessAll(_, _)
ProcessAll(r, commits) ==
    IF commits = <<>> THEN r
    ELSE ProcessAll(ProcessCommit(r, Head(commits)), Tail(commits))

\* the calls of the commit callback by a step of the Parse of repository idx
ScanDeliveries(out, idx) ==
    IF out.commits = <<>> THEN <<>>
    ELSE <<[repo |-> idx, email |-> out.commits[1].Author.Email]>>

SDeliver(out) ==
    /\ ps' = out.ps
    /\ repo' = ProcessAll(repo, out.commits)
    /\ lastOp' = IF out.commits = <<>> THEN lastOp ELSE "commit"
    /\ delivered' = delivered \o ScanDeliveries(out, scanIdx)
    /\ UNCHANGED <<mergedNow, obsAdd, obsDel, progress, scanVars, histVars, queryVars, viewVars, appVars, sortVars>>

SReadLine ==
    /\ page = "progress"
    /\ pc = "scanning"
    /\ \E n \in SourceNext(src, ScanKinds, ScanNumstatLines) :
        /\ src' = n.src
        /\ SDeliver(ParseLine(ps, n.line))
    /\ UNCHANGED <<pc, retErr>>

SSourceExit ==
    /\ page = "progress"
    /\ pc = "scanning"
    /\ SourceComplete(src)
    /\ SDeliver(EndOfInput(ps))
    /\ pc' = "returned"
    /\ retErr' = "nil"
    /\ UNCHANGED src

SSourceFail ==
    /\ page = "progress"
    /\ pc = "scanning"
    /\ SDeliver(EndOfInput(ps))
    /\ pc' = "returned"
    /\ retErr' = "exit status 128"
    /\ UNCHANGED src

\* a loop that ends at the first Parse error
NextRepo_StopsOnError(idx, err) == IF err # "nil" THEN Len(RepoPaths) + 1 ELSE idx + 1

\* lines 175-191: the index the loop goes on with after the Parse of
\* repository idx returned err; past the last index the loop ends
NextRepo(idx, err) == idx + 1

\* lines 175-190: the rest of the loop body, then the next iteration
AfterParse ==
    /\ page = "progress"
    /\ pc = "returned"
    /\ failed' = IF retErr # "nil" THEN failed \cup {scanIdx} ELSE failed
    /\ \E size \in CodebaseSizes : codebase' = codebase + size
    /\ LET next == NextRepo(scanIdx, retErr)
       IN  IF next <= Len(RepoPaths)
           THEN BeginParse(next)
           ELSE /\ scanIdx' = next
                /\ pc' = "idle"
                /\ UNCHANGED <<src, ps, retErr, parsed>>
    /\ UNCHANGED <<aggVars, delivered, progress, page, finalizeCalls, histVars, queryVars, viewVars, appVars, sortVars>>

\* a final closure that leaves the progress page showing
PageAfterScan_Progress == "progress"

\* line 200: the page the final closure of a scan switches to
PageAfterScan == "main"

\* lines 193-198: Finalize, the codebase size, and the final closure handed
\* to QueueUpdateDraw
ScanFinalize ==
    /\ page = "progress"
    /\ pc = "idle"
    /\ scanIdx > Len(RepoPaths)
    /\ repo' = [Finalize(repo) EXCEPT !.CodebaseSize = codebase]
    /\ lastOp' = "finalize"
    /\ finalizeCalls' = finalizeCalls + 1
    /\ pc' = "queued"
    /\ UNCHANGED <<mergedNow, obsAdd, obsDel, src, ps, retErr, delivered, progress, page, scanIdx, parsed, failed, codebase, histVars, queryVars, viewVars, appVars, sortVars>>

\* lines 198-202: the event loop runs the final closure
ShowMain ==
    /\ page = "progress"
    /\ pc = "queued"
    /\ page' = PageAfterScan
    /\ pc' = "done"
    /\ UNCHANGED <<src, ps, retErr, delivered, progress, aggVars, scanIdx, parsed, failed, codebase, finalizeCalls, histVars, queryVars, viewVars, appVars, sortVars>>

NextS ==
    \/ SetupComplete
    \/ SStart
    \/ SStartFail
    \/ SReadLine
    \/ SSourceExit
    \/ SSourceFail
    \/ AfterParse
    \/ ScanFinalize
    \/ ShowMain

SpecScan == InitS /\ [][NextS]_vars

\* the scan of repositories whose commits all have one author
ScanOneKind ==
    { [name |-> "Jo", email |-> "a@x.com", parents |-> "p1", subject |-> "fix"] }

SReadOne ==
    /\ page = "progress"
    /\ pc = "scanning"
    /\ \E n \in SourceNext(src, ScanOneKind, ScanNumstatLines) :
        /\ src' = n.src
        /\ SDeliver(ParseLine(ps, n.line))
    /\ UNCHANGED <<pc, retErr>>

\* the steps of the goroutine started at line 118
ScanStep ==
    \/ SStart
    \/ SStartFail
    \/ SReadOne
    \/ SSourceExit
    \/ SSourceFail
    \/ AfterParse
    \/ ScanFinalize

NextF ==
    \/ SetupComplete
    \/ ScanStep
    \/ ShowMain

\* The goroutine keeps running while it has a step to take (every git
\* invocation terminates), and the event loop of tview runs every closure
\* handed to QueueUpdateDraw.  The user need never finish setup.
SpecScanFair == InitS /\ [][NextF]_vars /\ WF_vars(ScanStep) /\ WF_vars(ShowMain)

(***************************************************************************)
(* C9: a failed Parse does not end the scan: at every moment of a scan the  *)
(* shared model holds every commit delivered so far, whichever repository   *)
(* it came from, and when the scan has ended Parse was called for every     *)
(* repository and Finalize was called once.                                 *)
(***************************************************************************)
DeliveredBy(e) == {i \in 1..Len(delivered) : delivered[i].email = e}

AllDeliveredKept ==
    /\ repo.TotalCommits = Len(delivered)
    /\ AuthorKeys(repo) = {delivered[i].email : i \in 1..Len(delivered)}
    /\ \A e \in AuthorKeys(repo) : repo.Authors[e].Commits = Cardinality(DeliveredBy(e))

C9_ScanSurvivesFailure ==
    /\ AllDeliveredKept
    /\ failed \subseteq parsed
    /\ finalizeCalls <= 1
    /\ page = "main" =>
        /\ parsed = 1..Len(RepoPaths)
        /\ finalizeCalls = 1

\* the scan has ended; the first repository failed after it had delivered a
\* commit, and the second delivered a commit too
C9_Witness ==
    /\ page = "main"
    /\ 1 \in failed
    /\ \E i \in 1..Len(delivered) : delivered[i].repo = 1
    /\ \E i \in 1..Len(delivered) : delivered[i].repo = 2
    /\ repo.TotalCommits >= 2

(***************************************************************************)
(* C11: in every directory accumulator the per-author changed lines sum to  *)
(* the directory's total; hence in a finalized model, and in every model a  *)
(* merge (of any map, in any visiting order) leaves, the ownership shares   *)
(* of a directory with nonzero total sum to 100.  A share is the exact      *)
(* fraction <<changes * 100, total>>; the float64 quotient of the code is   *)
(* within a few units in the last place of it.                              *)
(***************************************************************************)
SumChanges(dirStat) ==
    SumOver([e \in DOMAIN dirStat.Authors |-> dirStat.Authors[e].Changes],
            DOMAIN dirStat.Authors)

\* the shares of the directory, all over its total, add up to 100
SharesSumTo100(dirStat) ==
    /\ \A e \in DOMAIN dirStat.Authors : dirStat.Authors[e].Share[2] = dirStat.TotalChanges
    /\ SumOver([e \in DOMAIN dirStat.Authors |-> dirStat.Authors[e].Share[1]],
               DOMAIN dirStat.Authors) = 100 * dirStat.TotalChanges

DirSharesOk(r) ==
    \A d \in DOMAIN r.DirStats :
        /\ SumChanges(r.DirStats[d]) = r.DirStats[d].TotalChanges
        /\ r.DirStats[d].TotalChanges > 0 => SharesSumTo100(r.DirStats[d])

C11_SharesSumTo100 ==
    /\ \A d \in DOMAIN repo.DirStats :
        SumChanges(repo.DirStats[d]) = repo.DirStats[d].TotalChanges
    /\ lastOp \in {"finalize", "merge"} => DirSharesOk(repo)
    /\ lastOp = "finalize" =>
        \A merges \in MergeMaps :
            \A r2 \in ApplyAuthorMerges(repo, merges) : DirSharesOk(r2)

\* a merge has left a directory with changed lines shared by two authors
C11_Witness ==
    /\ lastOp = "merge"
    /\ mergedNow # {}
    /\ \E d \in DOMAIN repo.DirStats :
        /\ repo.DirStats[d].TotalChanges > 0
        /\ Cardinality({e \in DOMAIN repo.DirStats[d].Authors :
                            repo.DirStats[d].Authors[e].Changes > 0}) = 2

(***************************************************************************)
(* The observation machine: ProcessCommit (aggregator.go 30-115) called     *)
(* with any sequence of commits, the sequence being recorded.  The commits  *)
(* fall on two days with a gap between them, and one lists a path twice.    *)
(***************************************************************************)
ObserveFileChangeLists ==
    { <<FC(MainGo, 2, 1)>>,
      <<FC(MainGo, 1, 0), FC(MainGo, 0, 1)>>,
      <<FC(SrcA, 1, 0), BinFC(SrcLogo)>> }

ObserveTimes == {34, 107}

ObserveInputs ==
    {MkCommit(a, t, fcs) : a \in AuthorIds, t \in ObserveTimes, fcs \in ObserveFileChangeLists}
    \cup {MkMergeCommit(a, 59, <<>>) : a \in AuthorIds}

ObserveCommit ==
    /\ Len(observed) < MaxCommits
    /\ \E c \in ObserveInputs :
        /\ repo' = ProcessCommit(repo, c)
        /\ observed' = Append(observed, c)
        /\ obsAdd' = obsAdd + SumAdditions(c.FileChanges)
        /\ obsDel' = obsDel + SumDeletions(c.FileChanges)
    /\ lastOp' = "commit"
    /\ mergedNow' = {}
    /\ UNCHANGED <<owner, parseVars, scanVars, queryVars, viewVars, appVars, sortVars>>

SpecObserve == Init /\ [][ObserveCommit]_vars

(***************************************************************************)
(* C12: the touch count of every file accumulator is the number of          *)
(* observed commits that list a (non-binary) change to its path, a commit   *)
(* that lists the path more than once being counted once.                   *)
(***************************************************************************)
\* the observed commits with a change to path that the aggregator counts
CommitsTouching(path) ==
    {i \in 1..Len(observed) :
        \E k \in 1..Len(observed[i].FileChanges) :
            /\ observed[i].FileChanges[k].FilePath = path
            /\ ~observed[i].FileChanges[k].IsBinary}

C12_TouchCountIsDistinctCommits ==
    \A f \in DOMAIN repo.FileStats :
        repo.FileStats[f].TouchCount = Cardinality(CommitsTouching(f))

(***************************************************************************)
(* GetHotspots (aggregator.go 217-270).  A float64 score is the exact       *)
(* fraction <<num, den>> with den > 0.  sort.Slice is handed the files in   *)
(* the order of a range over a map and is not stable: the result is any     *)
(* arrangement the comparison allows.                                       *)
(***************************************************************************)
FracLess(a, b) == a[1] * b[2] < b[1] * a[2]

FracEq(a, b) == a[1] * b[2] = b[1] * a[2]

MaxOver(f, S) ==
    IF S = {} THEN 0 ELSE CHOOSE m \in {f[k] : k \in S} : \A k \in S : f[k] <= m

\* lines 221-236
MaxChangesOf(r) ==
    LET m == MaxOver([f \in DOMAIN r.FileStats |-> r.FileStats[f].TotalChanges],
                     DOMAIN r.FileStats)
    IN  IF m = 0 THEN 1 ELSE m

MaxTouchesOf(r) ==
    LET m == MaxOver([f \in DOMAIN r.FileStats |-> r.FileStats[f].TouchCount],
                     DOMAIN r.FileStats)
    IN  IF m = 0 THEN 1 ELSE m

\* the loop that skips only the files without any author
HotspotCandidates_KeepsSingleAuthor(r) ==
    {f \in DOMAIN r.FileStats : Cardinality(DOMAIN r.FileStats[f].Authors) >= 1}

\* lines 239-242: the files the loop does not skip
HotspotCandidates(r) ==
    {f \in DOMAIN r.FileStats : Cardinality(DOMAIN r.FileStats[f].Authors) >= 2}

\* lines 244-249: (churn * 0.4 + touch * 0.3 + author * 0.3) * 100
RiskScore(changes, maxChanges, touches, maxTouches, authorCount, totalAuthors) ==
    << 10 * (4 * changes * maxTouches * totalAuthors
             + 3 * touches * maxChanges * totalAuthors
             + 3 * authorCount * maxChanges * maxTouches),
       maxChanges * maxTouches * totalAuthors >>

\* lines 251-258
NewHotspotFile(r, f) ==
    LET fileStat == r.FileStats[f]
        authorCount == Cardinality(DOMAIN fileStat.Authors)
    IN  [Path |-> fileStat.Path,
         ChurnScore |-> <<fileStat.TotalChanges * 100, MaxChangesOf(r)>>,
         AuthorCount |-> authorCount,
         RiskScore |-> RiskScore(fileStat.TotalChanges, MaxChangesOf(r),
                                 fileStat.TouchCount, MaxTouchesOf(r),
                                 authorCount, r.TotalAuthors),
         Changes |-> fileStat.TotalChanges,
         TouchCount |-> fileStat.TouchCount]

\* lines 262-264: no element has a higher score than one before it
SortedByRiskDesc(hs) ==
    \A i \in 1..Len(hs) : \A j \in 1..Len(hs) :
        i < j => ~FracLess(hs[i].RiskScore, hs[j].RiskScore)

\* lines 266-269
Limit(seq, limit) ==
    IF limit > 0 /\ limit < Len(seq) THEN SubSeq(seq, 1, limit) ELSE seq

\* every sequence GetHotspots(limit) can return
GetHotspots(r, limit) ==
    LET all == {[i \in 1..Len(o) |-> NewHotspotFile(r, o[i])] : o \in Perms(HotspotCandidates(r))}
    IN  {Limit(hs, limit) : hs \in {h \in all : SortedByRiskDesc(h)}}

(***************************************************************************)
(* C13: in every model ProcessCommit and ApplyAuthorMerges reach,           *)
(* GetHotspots without a limit returns exactly the files with at least two  *)
(* distinct authors, each with the documented risk score, which lies in     *)
(* [0, 100], in descending order of score.                                  *)
(***************************************************************************)
InZeroToHundred(x) == 0 <= x[1] /\ x[1] <= 100 * x[2]

\* the documented score of file f, from the accumulators themselves
DocumentedRisk(r, f) ==
    RiskScore(r.FileStats[f].TotalChanges, MaxChangesOf(r),
              r.FileStats[f].TouchCount, MaxTouchesOf(r),
              Cardinality(DOMAIN r.FileStats[f].Authors),
              Cardinality(DOMAIN r.Authors))

HotspotsOk(r, hs) ==
    /\ {hs[i].Path : i \in 1..Len(hs)} =
            {f \in DOMAIN r.FileStats : Cardinality(DOMAIN r.FileStats[f].Authors) >= 2}
    /\ Len(hs) = Cardinality({hs[i].Path : i \in 1..Len(hs)})
    /\ \A i \in 1..Len(hs) :
        /\ FracEq(hs[i].RiskScore, DocumentedRisk(r, hs[i].Path))
        /\ InZeroToHundred(hs[i].RiskScore)
    /\ SortedByRiskDesc(hs)

C13_HotspotsInRange ==
    /\ GetHotspots(repo, 0) # {}
    /\ \A hs \in GetHotspots(repo, 0) : HotspotsOk(repo, hs)

(***************************************************************************)
(* GetLeaderboard (aggregator.go 151-181).  The authors are collected by a  *)
(* range over the map, in any order, and sorted with sort.Slice, which is   *)
(* not stable; with ascending = false the comparison is !(key_i < key_j),   *)
(* true both ways for a tie.  The result is any arrangement of the authors  *)
(* in which the keys never run against the direction.                       *)
(***************************************************************************)
SortKeys == {"name", "commits", "additions", "deletions", "net", "other"}

\* the byte order of the author names in use ("" < "Ann" < "Jo")
NameRank(n) == CASE n = "" -> 0 [] n = "Ann" -> 1 [] n = "Jo" -> 2

\* lines 159-173: the value the comparison of the column is made on
LeaderKey(a, sortBy) ==
    CASE sortBy = "name" -> NameRank(a.Name)
      [] sortBy = "commits" -> a.Commits
      [] sortBy = "additions" -> a.Additions
      [] sortBy = "deletions" -> a.Deletions
      [] sortBy = "net" -> a.Additions - a.Deletions
      [] OTHER -> a.Commits

SortedByKey(seq, sortBy, ascending) ==
    \A i \in 1..Len(seq) : \A j \in 1..Len(seq) :
        i < j =>
            IF ascending
            THEN LeaderKey(seq[i], sortBy) <= LeaderKey(seq[j], sortBy)
            ELSE LeaderKey(seq[i], sortBy) >= LeaderKey(seq[j], sortBy)

\* every sequence GetLeaderboard(sortBy, ascending) can return
GetLeaderboard(r, sortBy, ascending) ==
    LET all == {[i \in 1..Len(o) |-> r.Authors[o[i]]] : o \in Perms(DOMAIN r.Authors)}
    IN  {lb \in all : SortedByKey(lb, sortBy, ascending)}

(***************************************************************************)
(* C14: a merge of an alias into a primary, both with an accumulator,       *)
(* leaves one author entry under the primary's email and name whose         *)
(* commits, additions and deletions are the sums over the primary and its   *)
(* aliases; a file whose distinct authors were exactly the alias and the    *)
(* primary has one distinct author afterwards and is in no hotspot list.    *)
(* The documented scenario (Jo a@x.com +10/-0 and Jo b@x.com +5/-2 on       *)
(* main.go, b merged into a) gives Jo, 2 commits, +15/-2, and no hotspot.   *)
(***************************************************************************)
\* the aliases of primary p in merges that have an accumulator in r
PresentAliases(r, merges, p) ==
    {k \in DOMAIN merges : k # p /\ merges[k] = p /\ Has(r.Authors, k)}

MergedEntryOk(r, r2, merges, p) ==
    LET as == PresentAliases(r, merges, p)
        group == as \cup {p}
        part == [k \in group |-> r.Authors[k]]
    IN  /\ \A k \in as : ~Has(r2.Authors, k)
        /\ Has(r2.Authors, p)
        /\ r2.Authors[p].Name = r.Authors[p].Name
        /\ r2.Authors[p].Email = p
        /\ r2.Authors[p].Commits = SumCommits(part)
        /\ r2.Authors[p].Additions = SumAdditionsOf(part)
        /\ r2.Authors[p].Deletions = SumDeletionsOf(part)
        /\ \A k \in as : \A f \in DOMAIN r.FileStats :
            DOMAIN r.FileStats[f].Authors = {k, p} =>
                /\ DOMAIN r2.FileStats[f].Authors = {p}
                /\ f \notin HotspotCandidates(r2)
                /\ \A hs \in GetHotspots(r2, 0) :
                    \A i \in 1..Len(hs) : hs[i].Path # f

ScenarioModel ==
    Finalize(ProcessCommit(
        ProcessCommit(NewRepository,
                      MkCommit([Name |-> "Jo", Email |-> "a@x.com"], 34, <<FC(MainGo, 10, 0)>>)),
        MkCommit([Name |-> "Jo", Email |-> "b@x.com"], 58, <<FC(MainGo, 5, 2)>>)))

ScenarioMerges == [k \in {"a@x.com", "b@x.com"} |-> "a@x.com"]

ScenarioOk ==
    /\ \E hs \in GetHotspots(ScenarioModel, 0) : Len(hs) = 1 /\ hs[1].Path = MainGo
    /\ \A r2 \in ApplyAuthorMerges(ScenarioModel, ScenarioMerges) :
        /\ DOMAIN r2.Authors = {"a@x.com"}
        /\ \A lb \in GetLeaderboard(r2, "commits", FALSE) :
            /\ Len(lb) = 1
            /\ lb[1].Name = "Jo"
            /\ lb[1].Commits = 2
            /\ lb[1].Additions = 15
            /\ lb[1].Deletions = 2
        /\ GetLeaderboard(r2, "commits", FALSE) # {}
        /\ DOMAIN r2.FileStats[MainGo].Authors = {"a@x.com"}
        /\ GetHotspots(r2, 0) = {<<>>}

C14_MergeScenario ==
    /\ ScenarioOk
    /\ lastOp = "finalize" =>
        \A merges \in WellFormedMaps :
            \A r2 \in ApplyAuthorMerges(repo, merges) :
                \A p \in DOMAIN merges :
                    (merges[p] = p /\ Has(repo.Authors, p)) => MergedEntryOk(repo, r2, merges, p)

\* a merge has folded an alias into a primary, and the file both had changed
\* is left with one author and out of the hotspots
C14_Witness ==
    /\ lastOp = "merge"
    /\ Cardinality(mergedNow) = 1
    /\ \E p \in DOMAIN repo.Authors : repo.Authors[p].Commits = 2
    /\ Has(repo.FileStats, MainGo)
    /\ \E p \in DOMAIN repo.Authors :
        /\ DOMAIN repo.FileStats[MainGo].Authors = {p}
        /\ repo.FileStats[MainGo].Authors[p] = 2
    /\ GetHotspots(repo, 0) = {<<>>}

(***************************************************************************)
(* C15, as the code has it: a record is a merge commit exactly when its     *)
(* parent line holds at least 2 hashes.  A merge commit with the subject    *)
(* "Merge pull request #42 from team/feature-x" gets PRNumber 42 and        *)
(* MergeBranch "team/feature-x" and, observed, raises the total-merge and   *)
(* the identified-PR counter by one; a merge commit with the subject        *)
(* "Merge branch 'feature' into main" gets PRNumber 0 and MergeBranch       *)
(* "feature"; a commit with fewer than 2 parents, or a merge commit whose   *)
(* subject matches neither pattern, gets PRNumber 0 and an empty branch.    *)
(***************************************************************************)
\* the number of hashes on a parent line
ParentCount(line) ==
    CASE line = "" -> 0
      [] line = "p1" -> 1
      [] line = "p1 p2" -> 2
      [] line = "p1 p2 p3" -> 3

\* the parser has read the seven header lines of the current record
HeaderRead == ps.current # <<>> /\ ps.lineNum = HeaderLines

PRCountersRaised(c, merges, prs) ==
    LET after == ProcessCommit(repo, c).PRStats
    IN  /\ after.TotalMerges = repo.PRStats.TotalMerges + merges
        /\ after.TotalPRs = repo.PRStats.TotalPRs + prs

MergeFlagAndPR(c, k) ==
    LET merge == ParentCount(k.parents) >= 2
    IN  /\ c.IsMerge = merge
        /\ (merge /\ k.subject = PRSubject) =>
            /\ c.PRNumber = 42
            /\ c.MergeBranch = "team/feature-x"
            /\ PRCountersRaised(c, 1, 1)
        /\ ~merge => PRCountersRaised(c, 0, 0)

C15_MergeAndPRParse ==
    HeaderRead =>
        LET c == ps.current[1]
            k == src.kind
            merge == ParentCount(k.parents) >= 2
        IN  /\ MergeFlagAndPR(c, k)
            /\ (merge /\ k.subject = BranchSubject) =>
                /\ c.PRNumber = 0
                /\ c.MergeBranch = "feature"
                /\ PRCountersRaised(c, 1, 0)
            /\ (~merge \/ k.subject \notin {PRSubject, BranchSubject}) =>
                /\ c.PRNumber = 0
                /\ c.MergeBranch = ""

\* C15 as stated: every commit whose subject is not the pull-request pattern
\* gets PRNumber 0 and an empty branch
C15_AsStated ==
    HeaderRead =>
        LET c == ps.current[1]
            k == src.kind
            merge == ParentCount(k.parents) >= 2
        IN  /\ MergeFlagAndPR(c, k)
            /\ (~merge \/ k.subject # PRSubject) =>
                /\ c.PRNumber = 0
                /\ c.MergeBranch = ""

\* the header of a two-parent pull-request merge has been read
C15_Witness ==
    /\ HeaderRead
    /\ src.kind.parents = "p1 p2"
    /\ src.kind.subject = PRSubject
    /\ ps.current[1].IsMerge
    /\ ps.current[1].PRNumber = 42

(***************************************************************************)
(* GetTimeline (aggregator.go 273-318).  A date key "2006-01-02" is the     *)
(* number of its day: the fixed-width keys sort as the days do, and         *)
(* AddDate(0, 0, 1) is the next day.  A rolling average is the exact        *)
(* fraction <<sum, count>>.  Sequences are indexed from 1.                  *)
(***************************************************************************)
\* the windows a configuration can hold (config.Default: 7)
Windows == {1, 2, 3, 7}

MinOver(S) == CHOOSE m \in S : \A x \in S : m <= x

MaxOfSet(S) == CHOOSE m \in S : \A x \in S : x <= m

RECURSIVE SumRange(_, _, _)
\* lines 305-308
SumRange(values, from, to) ==
    IF from > to THEN 0 ELSE values[from] + SumRange(values, from + 1, to)

\* a window that starts one day early
RollingStart_OneEarly(i, windowDays) ==
    IF i - windowDays < 1 THEN 1 ELSE i - windowDays

\* lines 301-304: the first index of the window that ends at i
RollingStart(i, windowDays) ==
    IF i - windowDays + 1 < 1 THEN 1 ELSE i - windowDays + 1

EmptyTimeline == [Period |-> "", Labels |-> <<>>, Values |-> <<>>, RollingAvg |-> <<>>]

GetTimeline(r, windowDays) ==
    IF DOMAIN r.DailyActivity = {} THEN EmptyTimeline
    ELSE
    LET startDate == MinOver(DOMAIN r.DailyActivity)
        endDate == MaxOfSet(DOMAIN r.DailyActivity)
        labels == [i \in 1..(endDate - startDate + 1) |-> startDate + i - 1]
        values == [i \in 1..Len(labels) |-> Get0(r.DailyActivity, labels[i])]
        rollingAvg ==
            [i \in 1..Len(values) |->
                <<SumRange(values, RollingStart(i, windowDays), i),
                  i - RollingStart(i, windowDays) + 1>>]
    IN  [Period |-> "day", Labels |-> labels, Values |-> values, RollingAvg |-> rollingAvg]

(***************************************************************************)
(* C16: for a model that has observed commits and every configured window,  *)
(* GetTimeline returns the consecutive days from the first to the last      *)
(* active day, each with the number of commits observed on it (0 for a day  *)
(* without commits), and the rolling average at position i is the mean of   *)
(* the min(window, i) values that end at position i.                        *)
(***************************************************************************)
ActiveDays == {DateKey(observed[i].AuthorDate) : i \in 1..Len(observed)}

CommitsOn(day) == Cardinality({i \in 1..Len(observed) : DateKey(observed[i].AuthorDate) = day})

Smaller(a, b) == IF a < b THEN a ELSE b

TimelineOk(tl, windowDays) ==
    LET first == MinOver(ActiveDays)
        last == MaxOfSet(ActiveDays)
        n == last - first + 1
    IN  /\ Len(tl.Labels) = n
        /\ Len(tl.Values) = n
        /\ Len(tl.RollingAvg) = n
        /\ \A i \in 1..n :
            /\ tl.Labels[i] = first + i - 1
            /\ tl.Values[i] = CommitsOn(first + i - 1)
            /\ tl.RollingAvg[i][2] = Smaller(windowDays, i)
            /\ tl.RollingAvg[i][1] =
                    SumRange(tl.Values, i - Smaller(windowDays, i) + 1, i)

C16_TimelineShape ==
    observed # <<>> =>
        \A w \in Windows : TimelineOk(GetTimeline(repo, w), w)

\* commits on two days three days apart: a timeline of four days with a gap
C16_Witness ==
    /\ Len(observed) >= 2
    /\ ActiveDays = {1, 4}
    /\ GetTimeline(repo, 2).Values[2] = 0
    /\ Len(GetTimeline(repo, 2).Values) = 4
    /\ GetTimeline(repo, 2).RollingAvg[4][2] = 2

(***************************************************************************)
(* C17: GetLeaderboard is a stable sort: two authors that tie on the sort   *)
(* key stand in the order in which their accumulators were created, so the  *)
(* model determines one result for each key and direction.                  *)
(***************************************************************************)
\* the position in the observed sequence of the commit that created the
\* accumulator of email
CreatedAt(email) ==
    MinOver({i \in 1..Len(observed) : observed[i].Author.Email = email})

TiesInCreationOrder(lb, sortBy) ==
    \A i \in 1..Len(lb) : \A j \in 1..Len(lb) :
        (i < j /\ LeaderKey(lb[i], sortBy) = LeaderKey(lb[j], sortBy))
            => CreatedAt(lb[i].Email) < CreatedAt(lb[j].Email)

C17_LeaderboardStable ==
    \A sortBy \in SortKeys : \A ascending \in BOOLEAN :
        /\ Cardinality(GetLeaderboard(repo, sortBy, ascending)) = 1
        /\ \A lb \in GetLeaderboard(repo, sortBy, ascending) :
            TiesInCreationOrder(lb, sortBy)

(***************************************************************************)
(* The other resolvers (aggregator.go 184-214, 321-366, 544-598).  Each     *)
(* collects into a slice it makes, in the order of a range over a map (or,  *)
(* for GetPRList, into a copy of the model's slice), and sorts the slice    *)
(* with sort.Slice: the result is any arrangement of the elements in which  *)
(* the ranks never run against the direction.                               *)
(***************************************************************************)
\* the arrangements of keys that sort.Slice can leave; rank maps a key to
\* the value the comparison is made on
SortedOrders(keys, rank, ascending) ==
    {o \in Perms(keys) :
        \A i \in 1..Len(o) : \A j \in 1..Len(o) :
            i < j => IF ascending THEN rank[o[i]] <= rank[o[j]]
                                  ELSE rank[o[i]] >= rank[o[j]]}

\* the byte order of the file paths in use
FilePathRank(path) ==
    CASE path = MainGo -> 1
      [] path = SrcA -> 2
      [] path = SrcLogo -> 3

\* the byte order of the directory paths in use
DirPathRank(path) == CASE path = "." -> 1 [] path = "src" -> 2

\* lines 192-203: the value a file is compared on
FileKey(entry, sortBy) ==
    CASE sortBy = "path" -> FilePathRank(entry.Path)
      [] sortBy = "changes" -> entry.TotalChanges
      [] sortBy = "touches" -> entry.TouchCount
      [] sortBy = "authors" -> Cardinality(DOMAIN entry.Authors)
      [] OTHER -> entry.TotalChanges

\* lines 347-358: the value a directory is compared on
DirKey(entry, sortBy) ==
    CASE sortBy = "path" -> DirPathRank(entry.Path)
      [] sortBy = "changes" -> entry.TotalChanges
      [] sortBy = "touches" -> entry.TouchCount
      [] sortBy = "authors" -> Cardinality(DOMAIN entry.Authors)
      [] OTHER -> entry.TotalChanges

\* lines 184-214
GetTopFiles(r, sortBy, ascending, limit) ==
    LET rank == [f \in DOMAIN r.FileStats |-> FileKey(r.FileStats[f], sortBy)]
    IN  {Limit([i \in 1..Len(o) |-> r.FileStats[o[i]]], limit) :
            o \in SortedOrders(DOMAIN r.FileStats, rank, ascending)}

\* lines 339-366
GetOwnership(r, sortBy, ascending) ==
    LET rank == [d \in DOMAIN r.DirStats |-> DirKey(r.DirStats[d], sortBy)]
    IN  {[i \in 1..Len(o) |-> r.DirStats[o[i]]] :
            o \in SortedOrders(DOMAIN r.DirStats, rank, ascending)}

\* lines 321-336: the matrix is an array, copied into the result
GetHeatmap(r) ==
    [Matrix |-> r.HourlyMatrix,
     MaxValue |-> MaxOver(r.HourlyMatrix, DOMAIN r.HourlyMatrix)]

\* lines 552-561
PRAuthorKey(a, sortBy) ==
    CASE sortBy = "name" -> NameRank(a.Name)
      [] sortBy = "merges" -> a.MergeCount
      [] sortBy = "changes" -> a.TotalChanges
      [] OTHER -> a.MergeCount

\* lines 544-569
GetPRLeaderboard(r, sortBy, ascending) ==
    LET index == r.PRStats.MergesByAuthor
        rank == [e \in DOMAIN index |-> PRAuthorKey(index[e], sortBy)]
    IN  {[i \in 1..Len(o) |-> index[o[i]]] :
            o \in SortedOrders(DOMAIN index, rank, ascending)}

\* lines 578-587
PRInfoKey(pr, sortBy) ==
    CASE sortBy = "date" -> pr.MergedAt
      [] sortBy = "size" -> pr.Additions + pr.Deletions
      [] sortBy = "files" -> pr.FilesCount
      [] OTHER -> pr.MergedAt

\* lines 576-592: the arrangements of the PR list that the sort can leave
SortedPRLists(r, sortBy, ascending) ==
    LET list == r.PRStats.PRList
        rank == [i \in 1..Len(list) |-> PRInfoKey(list[i], sortBy)]
    IN  {[i \in 1..Len(o) |-> list[o[i]]] :
            o \in SortedOrders(1..Len(list), rank, ascending)}

\* lines 572-598: the copy is sorted, the model's slice is not
GetPRList(r, sortBy, ascending, limit) ==
    {Limit(prs, limit) : prs \in SortedPRLists(r, sortBy, ascending)}

(***************************************************************************)
(* The query machine: a caller observes commits, calls a resolver and then  *)
(* reorders or truncates the sequence it was given.  A call gives the       *)
(* sequence returned, whether its backing array is one the model holds, and *)
(* the model after the call.                                                *)
(***************************************************************************)
QueryInputs ==
    { MkCommit([Name |-> "Jo", Email |-> "a@x.com"], 34, <<FC(MainGo, 2, 1)>>),
      MkMergeCommit([Name |-> "Jo", Email |-> "a@x.com"], 59, <<>>),
      MkMergeCommit([Name |-> "Ann", Email |-> "c@x.com"], 107, <<FC(SrcA, 1, 0)>>) }

Resolvers ==
    {"GetLeaderboard", "GetTopFiles", "GetHotspots", "GetTimeline", "GetHeatmap",
     "GetOwnership", "GetPRLeaderboard", "GetPRList"}

\* the sort columns a caller passes to the resolver
QuerySortKeys(fn) ==
    CASE fn = "GetLeaderboard" -> {"name", "commits"}
      [] fn = "GetTopFiles" -> {"path", "changes"}
      [] fn = "GetOwnership" -> {"path", "authors"}
      [] fn = "GetPRLeaderboard" -> {"name", "merges"}
      [] fn = "GetPRList" -> {"date", "size"}
      [] OTHER -> {""}

QueryLimits == {0, 1}

\* a slice the resolver made itself (make, or append to a nil slice)
Fresh(r, outs) == {[out |-> o, shared |-> FALSE, repo |-> r] : o \in outs}

\* a GetPRList that sorts the model's own slice and returns it
GetPRListCall_SortsInPlace(r, sortBy, ascending, limit) ==
    {[out |-> Limit(prs, limit), shared |-> TRUE,
      repo |-> [r EXCEPT !.PRStats.PRList = prs]] :
        prs \in SortedPRLists(r, sortBy, ascending)}

\* lines 573-574: prs is made and the model's slice is copied into it
GetPRListCall(r, sortBy, ascending, limit) ==
    Fresh(r, GetPRList(r, sortBy, ascending, limit))

\* the cells of the heatmap matrix, as a sequence of <<cell, count>>
MatrixCells(matrix) ==
    LET o == CHOOSE x \in Perms(DOMAIN matrix) : TRUE
    IN  [i \in 1..Len(o) |-> <<o[i], matrix[o[i]]>>]

Call(r, fn, sortBy, ascending, limit) ==
    CASE fn = "GetLeaderboard" -> Fresh(r, GetLeaderboard(r, sortBy, ascending))
      [] fn = "GetTopFiles" -> Fresh(r, GetTopFiles(r, sortBy, ascending, limit))
      [] fn = "GetHotspots" -> Fresh(r, GetHotspots(r, limit))
      [] fn = "GetTimeline" -> Fresh(r, {GetTimeline(r, 2).Values})
      [] fn = "GetHeatmap" -> Fresh(r, {MatrixCells(GetHeatmap(r).Matrix)})
      [] fn = "GetOwnership" -> Fresh(r, GetOwnership(r, sortBy, ascending))
      [] fn = "GetPRLeaderboard" -> Fresh(r, GetPRLeaderboard(r, sortBy, ascending))
      [] fn = "GetPRList" -> GetPRListCall(r, sortBy, ascending, limit)

QObserve ==
    /\ held = NoResult
    /\ Len(observed) < MaxCommits
    /\ \E c \in QueryInputs :
        /\ repo' = ProcessCommit(repo, c)
        /\ observed' = Append(observed, c)
        /\ obsAdd' = obsAdd + SumAdditions(c.FileChanges)
        /\ obsDel' = obsDel + SumDeletions(c.FileChanges)
    /\ lastOp' = "commit"
    /\ mergedNow' = {}
    /\ UNCHANGED <<owner, parseVars, scanVars, queryVars, viewVars, appVars, sortVars>>

Query ==
    /\ \E fn \in Resolvers : \E sortBy \in QuerySortKeys(fn) :
        \E ascending \in BOOLEAN : \E limit \in QueryLimits :
            \E res \in Call(repo, fn, sortBy, ascending, limit) :
                /\ held' = [fn |-> fn, out |-> res.out, shared |-> res.shared]
                /\ repo' = res.repo
    /\ UNCHANGED <<lastOp, mergedNow, obsAdd, obsDel, parseVars, scanVars, histVars, viewVars, appVars, sortVars>>

Reverse(seq) == [i \in 1..Len(seq) |-> seq[Len(seq) + 1 - i]]

\* a write through the caller's slice reaches the model only when the
\* backing array is the model's
WriteThrough(seq) ==
    IF held.shared
    THEN [repo EXCEPT !.PRStats.PRList =
            seq \o SubSeq(@, Len(seq) + 1, Len(@))]
    ELSE repo

\* the caller reverses the sequence it holds, in place
ClientReorder ==
    /\ Len(held.out) >= 2
    /\ held.out # Reverse(held.out)
    /\ held' = [held EXCEPT !.out = Reverse(@)]
    /\ repo' = WriteThrough(Reverse(held.out))
    /\ UNCHANGED <<lastOp, mergedNow, obsAdd, obsDel, parseVars, scanVars, histVars, viewVars, appVars, sortVars>>

\* the caller drops the last element of the sequence it holds
ClientTruncate ==
    /\ Len(held.out) >= 1
    /\ held' = [held EXCEPT !.out = SubSeq(@, 1, Len(@) - 1)]
    /\ UNCHANGED <<aggVars, parseVars, scanVars, histVars, viewVars, appVars, sortVars>>

NextQ == QObserve \/ Query \/ ClientReorder \/ ClientTruncate

SpecQuery == Init /\ [][NextQ]_vars

MaxViewCommits == 4

ViewInputs == {MkCommit(a, 34, <<FC(MainGo, 1, 0)>>) : a \in AuthorIds}

\* a.Commits of the entry of v.authors with this email (lines 176-177); no
\* entry leaves maxCommits as it is
ListedCommits(r, email) == IF Has(r.Authors, email) THEN r.Authors[email].Commits ELSE 0

\* lines 131-138: the first self-mapping key the loop over v.merges meets
PrimariesOf(m) == {k \in DOMAIN m : m[k] = k}

\* lines 124-149: the maps markForMerge can leave for the author under the
\* cursor, one for each self-mapping key the loop can meet first
markForMerge(m, email) ==
    IF PrimariesOf(m) = {} THEN {Put(m, email, email)}
    ELSE { IF email # p THEN Put(m, email, p) ELSE m : p \in PrimariesOf(m) }

\* lines 172-182: the emails the loop can end with as primaryEmail.  The
\* comparison is strict, so the first selected email visited that has the
\* most commits wins; "" is never replaced when no selected email is listed
\* with a positive count
PrimaryCandidates(r, chosen) ==
    LET top == MaxOfSet({ListedCommits(r, e) : e \in chosen} \cup {0})
    IN  IF top = 0 THEN {} ELSE {e \in chosen : ListedCommits(r, e) = top}

\* lines 188-195
SetUpMerges(m, chosen, primaryEmail) ==
    [k \in (DOMAIN m) \cup chosen |-> IF k \in chosen THEN primaryEmail ELSE m[k]]

\* lines 166-200: the (map, selection) pairs mergeSelected can leave
mergeSelected(r, m, chosen) ==
    IF Cardinality(chosen) < 2 \/ PrimaryCandidates(r, chosen) = {}
    THEN {[merges |-> m, selected |-> chosen]}
    ELSE {[merges |-> SetUpMerges(m, chosen, p), selected |-> {}] :
            p \in PrimaryCandidates(r, chosen)}

\* the scan's commit callback
VObserve ==
    /\ lastOp \in {"new", "commit"}
    /\ repo.TotalCommits < MaxViewCommits
    /\ \E c \in ViewInputs :
        /\ repo' = ProcessCommit(repo, c)
        /\ obsAdd' = obsAdd + SumAdditions(c.FileChanges)
        /\ obsDel' = obsDel + SumDeletions(c.FileChanges)
    /\ lastOp' = "commit"
    /\ mergedNow' = {}
    /\ UNCHANGED <<parseVars, scanVars, histVars, queryVars, viewVars, appVars, sortVars>>

\* the end of the scan: Finalize, then MainView.SetData refreshes the view
\* (app.go 477, authors.go 225-228); the list shows its first item
VOpen ==
    /\ lastOp = "commit"
    /\ repo' = Finalize(repo)
    /\ lastOp' = "finalize"
    /\ mergedNow' = {}
    /\ cursor' \in DOMAIN repo.Authors
    /\ UNCHANGED <<obsAdd, obsDel, pending, selected, handed,
                   parseVars, scanVars, histVars, queryVars, appVars, sortVars>>

ViewOpen == lastOp \in {"finalize", "merge"} /\ cursor # ""

\* the list's changed callback (lines 82-87)
MoveCursor ==
    /\ ViewOpen
    /\ cursor' \in (DOMAIN repo.Authors) \ {cursor}
    /\ UNCHANGED <<pending, selected, handed, aggVars, parseVars, scanVars, histVars, queryVars, appVars, sortVars>>

\* ' ' (lines 151-164)
toggleSelection ==
    /\ ViewOpen
    /\ selected' = IF cursor \in selected THEN selected \ {cursor} ELSE selected \cup {cursor}
    /\ UNCHANGED <<pending, cursor, handed, aggVars, parseVars, scanVars, histVars, queryVars, appVars, sortVars>>

\* 'm' with two or more selected (lines 105-106)
PressM_Batch ==
    /\ ViewOpen
    /\ Cardinality(selected) >= 2
    /\ \E res \in mergeSelected(repo, pending, selected) :
        /\ pending' = res.merges
        /\ selected' = res.selected
    /\ UNCHANGED <<cursor, handed, aggVars, parseVars, scanVars, histVars, queryVars, appVars, sortVars>>

\* 'm' otherwise (lines 107-108)
PressM_Mark ==
    /\ ViewOpen
    /\ Cardinality(selected) < 2
    /\ pending' \in markForMerge(pending, cursor)
    /\ UNCHANGED <<selected, cursor, handed, aggVars, parseVars, scanVars, histVars, queryVars, appVars, sortVars>>

\* 'c' (lines 202-206)
clearAll ==
    /\ ViewOpen
    /\ pending' = EmptyMap
    /\ selected' = {}
    /\ UNCHANGED <<cursor, handed, aggVars, parseVars, scanVars, histVars, queryVars, appVars, sortVars>>

\* 'a' (lines 208-222), App.onMergeAuthors (app.go 73-94) and the refresh
\* that follows; handed keeps the last map handed over
applyMerges ==
    /\ ViewOpen
    /\ DOMAIN pending # {}
    /\ handed' = <<pending>>
    /\ pending' = EmptyMap
    /\ selected' = {}
    /\ \E r2 \in ApplyAuthorMerges(repo, pending) :
        /\ repo' = r2
        /\ mergedNow' = (DOMAIN repo.Authors) \ (DOMAIN r2.Authors)
        /\ cursor' \in DOMAIN r2.Authors
    /\ lastOp' = "merge"
    /\ UNCHANGED <<obsAdd, obsDel, parseVars, scanVars, histVars, queryVars, appVars, sortVars>>

NextV ==
    \/ VObserve
    \/ VOpen
    \/ MoveCursor
    \/ toggleSelection
    \/ PressM_Batch
    \/ PressM_Mark
    \/ clearAll
    \/ applyMerges

SpecAuthorsView == Init /\ [][NextV]_vars

\* C19: the pending map of the authors view, and every map applyMerges
\* hands to the merge operator, is a disjoint set: each value is a key that
\* maps to itself
C19_PendingIsDisjointSet ==
    /\ WellFormed(pending)
    /\ \A i \in 1..Len(handed) : WellFormed(handed[i])

(***************************************************************************)
(* C20: ApplyAuthorMerges applies an entry alias -> target only when the    *)
(* target is a key of the map that maps to itself.                          *)
(***************************************************************************)
\* the entries whose value is a self-mapping key of the map
ValidEntries(merges) ==
    [k \in {x \in DOMAIN merges : Has(merges, merges[x]) /\ merges[merges[x]] = merges[x]}
        |-> merges[k]]

\* C20: for every finalized model and every alias -> primary map, what
\* ApplyAuthorMerges leaves is what it leaves for the valid entries of the
\* map alone: an entry whose target is another alias, or is not a key of the
\* map, changes nothing
C20_ValidatesPrimaries ==
    PreMerge =>
        \A merges \in MergeMaps :
            \A r2 \in ApplyAuthorMerges(repo, merges) :
                r2 \in ApplyAuthorMerges(repo, ValidEntries(merges))

(***************************************************************************)
(* internal/ui/app.go: the goroutines of the application.  The event loop  *)
(* of tview.Application.Run is one goroutine: it takes a key event or a    *)
(* closure queued with QueueUpdateDraw, one at a time, and hands a key to  *)
(* the page of App.pages that has the focus, which is the page             *)
(* Pages.SwitchToPage made visible.  The progress page captures no key     *)
(* (views/progress.go 28-75).  onSetupComplete and onMergeAuthors start    *)
(* the other goroutines.  A call that touches the aggregate model takes a  *)
(* step to enter and a step to leave, so that overlaps are states.         *)
(***************************************************************************)
MaxSpawns == 5

MaxScanCommits == 3

\* the page onMergeAuthors leaves the keys without a handler on
PageDuringMerge_Main == "main"

\* line 81: a.pages.SwitchToPage("progress")
PageDuringMerge == "progress"

ScanThreads == {t \in threads : t.kind = "scan"}

MergeThreads == {t \in threads : t.kind = "merge"}

\* the goroutines inside a call that writes the aggregate model
Mutators == {t \in threads : t.pc \in {"ProcessCommit", "ApplyAuthorMerges"}}

\* the event loop is inside a Refresh, which calls the resolvers
UiQuerying == uiPc # "idle"

AppFrame == UNCHANGED <<scanIdx, parsed, failed, codebase, finalizeCalls, aggVars,
                        parseVars, histVars, queryVars, viewVars, sortVars>>

Spawn(kind, pc0, left) ==
    /\ spawned < MaxSpawns
    /\ spawned' = spawned + 1
    /\ threads' = threads \cup {[id |-> spawned + 1, kind |-> kind, pc |-> pc0, left |-> left]}

\* the setup view calls onSetupComplete with valid repositories (lines
\* 96-119): the progress page, then go a.scanRepositories(repos)
KeySetupComplete ==
    /\ uiPc = "idle"
    /\ page = "setup"
    /\ page' = "progress"
    /\ \E n \in 0..MaxScanCommits : Spawn("scan", "Parse", n)
    /\ UNCHANGED <<updates, uiPc>>
    /\ AppFrame

\* 'R' on the main page (lines 354-358, 205-208)
KeyRescan ==
    /\ uiPc = "idle"
    /\ page = "main"
    /\ page' = "setup"
    /\ UNCHANGED <<threads, updates, uiPc, spawned>>
    /\ AppFrame

\* 's' or 'r' on the main page (lines 360-365, 394-424): the current view
\* is refreshed from the model
KeySort ==
    /\ uiPc = "idle"
    /\ page = "main"
    /\ uiPc' = "Refresh"
    /\ UNCHANGED <<page, threads, updates, spawned>>
    /\ AppFrame

\* the Refresh returns
RefreshReturns ==
    /\ uiPc = "Refresh"
    /\ uiPc' = "idle"
    /\ UNCHANGED <<page, threads, updates, spawned>>
    /\ AppFrame

\* 'a' in the authors view with a pending map (authors.go 208-222), then
\* onMergeAuthors (lines 73-94): the progress page and the merge goroutine
KeyApplyMerges ==
    /\ uiPc = "idle"
    /\ page = "main"
    /\ page' = PageDuringMerge
    /\ Spawn("merge", "start", 0)
    /\ UNCHANGED <<updates, uiPc>>
    /\ AppFrame

\* the commit callback of Parse (lines 170-172) enters ProcessCommit
ScanEntersProcessCommit ==
    /\ \E t \in ScanThreads :
        /\ t.pc = "Parse"
        /\ t.left > 0
        /\ threads' = (threads \ {t}) \cup {[t EXCEPT !.pc = "ProcessCommit"]}
    /\ UNCHANGED <<page, updates, uiPc, spawned>>
    /\ AppFrame

\* ProcessCommit returns; Parse reports progress (lines 162-169), which
\* queues a closure that writes the progress view only
ScanLeavesProcessCommit ==
    /\ \E t \in ScanThreads :
        /\ t.pc = "ProcessCommit"
        /\ threads' = (threads \ {t}) \cup {[t EXCEPT !.pc = "Parse", !.left = @ - 1]}
    /\ updates' = Append(updates, "SetProgress")
    /\ UNCHANGED <<page, uiPc, spawned>>
    /\ AppFrame

\* lines 193-202: the loop is over; Finalize, then the closure that shows
\* the main page is queued and the goroutine ends
ScanEnds ==
    /\ \E t \in ScanThreads :
        /\ t.pc = "Parse"
        /\ t.left = 0
        /\ threads' = threads \ {t}
    /\ updates' = Append(updates, "SetData")
    /\ UNCHANGED <<page, uiPc, spawned>>
    /\ AppFrame

\* line 85
MergeEntersApply ==
    /\ \E t \in MergeThreads :
        /\ t.pc = "start"
        /\ threads' = (threads \ {t}) \cup {[t EXCEPT !.pc = "ApplyAuthorMerges"]}
    /\ UNCHANGED <<page, updates, uiPc, spawned>>
    /\ AppFrame

\* lines 88-92: the merge returned; the closure that refreshes the views is
\* queued and the goroutine ends
MergeEnds ==
    /\ \E t \in MergeThreads :
        /\ t.pc = "ApplyAuthorMerges"
        /\ threads' = threads \ {t}
    /\ updates' = Append(updates, "RefreshAllViews")
    /\ UNCHANGED <<page, uiPc, spawned>>
    /\ AppFrame

\* the event loop takes the oldest closure: SetData (lines 198-202) or
\* RefreshAllViews (lines 88-92) refreshes every view from the model
RunUpdate ==
    /\ uiPc = "idle"
    /\ updates # <<>>
    /\ Head(updates) # "SetProgress"
    /\ uiPc' = Head(updates)
    /\ updates' = Tail(updates)
    /\ UNCHANGED <<page, threads, spawned>>
    /\ AppFrame

\* the event loop takes a progress closure (lines 163-168): it reads its
\* captured numbers and writes the progress view
RunProgressUpdate ==
    /\ uiPc = "idle"
    /\ updates # <<>>
    /\ Head(updates) = "SetProgress"
    /\ updates' = Tail(updates)
    /\ UNCHANGED <<page, threads, uiPc, spawned>>
    /\ AppFrame

\* the rest of the closure: a.pages.SwitchToPage("main")
UpdateReturns ==
    /\ uiPc \in {"SetData", "RefreshAllViews"}
    /\ uiPc' = "idle"
    /\ page' = "main"
    /\ UNCHANGED <<threads, updates, spawned>>
    /\ AppFrame

NextApp ==
    \/ KeySetupComplete
    \/ KeyRescan
    \/ KeySort
    \/ RefreshReturns
    \/ KeyApplyMerges
    \/ ScanEntersProcessCommit
    \/ ScanLeavesProcessCommit
    \/ ScanEnds
    \/ MergeEntersApply
    \/ MergeEnds
    \/ RunUpdate
    \/ RunProgressUpdate
    \/ UpdateReturns

SpecApp == Init /\ [][NextApp]_vars

\* C21: at most one goroutine writes the aggregate model at a time: no
\* merge runs while a scan is inside ProcessCommit, two scans never
\* overlap, and no refresh of a view runs while ApplyAuthorMerges is in
\* progress
C21_OneMutatorAtATime ==
    /\ Cardinality(Mutators) <= 1
    /\ Cardinality(ScanThreads) <= 1
    /\ (MergeThreads # {}) => (ScanThreads = {})
    /\ UiQuerying => (MergeThreads = {})

\* a merge is inside ApplyAuthorMerges after an earlier scan has ended and
\* shown the main page
C21_Witness ==
    /\ \E t \in threads : t.kind = "merge" /\ t.pc = "ApplyAuthorMerges"
    /\ spawned >= 2
    /\ page = "progress"

(***************************************************************************)
(* The life of a model with its history recorded: ProcessCommit calls,     *)
(* Finalize, then ApplyAuthorMerges calls with well-formed maps.  observed *)
(* holds the commits in order; owner maps each email to the identity that  *)
(* now carries its commits.                                                *)
(***************************************************************************)
\* a merge commit whose subject names a branch and no pull request
MkBranchMerge(a, t, fcs) ==
    [MkMergeCommit(a, t, fcs) EXCEPT
        !.Subject = BranchSubject, !.PRNumber = 0, !.MergeBranch = "feature"]

JoA == [Name |-> "Jo", Email |-> "a@x.com"]

JoB == [Name |-> "Jo", Email |-> "b@x.com"]

Ann == [Name |-> "Ann", Email |-> "c@x.com"]

\* commits on two days and one whose date did not parse (the zero time),
\* with text and binary changes, and merges with and without a PR number
LifeInputs ==
    { MkCommit(JoA, 34, <<FC(MainGo, 2, 1)>>),
      MkCommit(JoA, ZeroTime, <<FC(MainGo, 1, 0)>>),
      MkCommit(JoA, 107, <<FC(SrcA, 1, 0), BinFC(SrcLogo)>>),
      MkMergeCommit(JoB, 59, <<FC(SrcA, 1, 1), BinFC(SrcLogo)>>),
      MkBranchMerge(JoA, 59, <<>>),
      MkCommit(Ann, 34, <<FC(SrcA, 0, 2)>>) }

LObserve ==
    /\ lastOp \in {"new", "commit"}
    /\ Len(observed) < MaxCommits
    /\ \E c \in LifeInputs :
        /\ repo' = ProcessCommit(repo, c)
        /\ observed' = Append(observed, c)
        /\ obsAdd' = obsAdd + SumAdditions(c.FileChanges)
        /\ obsDel' = obsDel + SumDeletions(c.FileChanges)
    /\ lastOp' = "commit"
    /\ mergedNow' = {}
    /\ UNCHANGED <<owner, parseVars, scanVars, queryVars, viewVars, appVars, sortVars>>

LFinalize ==
    /\ lastOp \in {"new", "commit"}
    /\ repo' = Finalize(repo)
    /\ lastOp' = "finalize"
    /\ mergedNow' = {}
    /\ UNCHANGED <<obsAdd, obsDel, parseVars, scanVars, histVars, queryVars, viewVars, appVars, sortVars>>

\* the commits of an identity that was merged away now belong to its primary
Reattribute(own, gone, merges) ==
    [e \in DOMAIN own |-> IF own[e] \in gone THEN merges[own[e]] ELSE own[e]]

\* the well-formed maps that name an alias
LifeMaps == {m \in WellFormedMaps : AliasKeys(m) # {}}

LMerge ==
    /\ lastOp \in {"finalize", "merge"}
    /\ \E merges \in LifeMaps :
        \E r2 \in ApplyAuthorMerges(repo, merges) :
            /\ repo' = r2
            /\ mergedNow' = (DOMAIN repo.Authors) \ (DOMAIN r2.Authors)
            /\ owner' = Reattribute(owner, (DOMAIN repo.Authors) \ (DOMAIN r2.Authors), merges)
    /\ lastOp' = "merge"
    /\ UNCHANGED <<obsAdd, obsDel, observed, parseVars, scanVars, queryVars, viewVars, appVars, sortVars>>

NextL == LObserve \/ LFinalize \/ LMerge

SpecLife == Init /\ [][NextL]_vars

(***************************************************************************)
(* C22: the commit counters agree                                           *)
(***************************************************************************)
SumDaily(r) == SumOver(r.DailyActivity, DOMAIN r.DailyActivity)

SumMatrix(r) == SumOver(r.HourlyMatrix, DOMAIN r.HourlyMatrix)

\* the day bucket and the weekday-hour cell of every observed commit, each
\* counted once
BucketsOf(commits) ==
    [d \in {DateKey(commits[i].AuthorDate) : i \in 1..Len(commits)} |->
        Cardinality({i \in 1..Len(commits) : DateKey(commits[i].AuthorDate) = d})]

CellOf(c) == <<(Weekday(c.AuthorDate) + 6) % DaysPerWeek, Hour(c.AuthorDate)>>

\* C22: the total-commit count is the number of ProcessCommit calls, the sum
\* of the authors' commit counts, the sum of the day buckets and the sum of
\* the weekday-hour cells; every commit raised one day bucket and one cell
\* with weekday in 0..6 and hour in 0..23; the total-author count is the
\* number of author accumulators
C22_CommitCountersAgree ==
    /\ repo.TotalCommits = Len(observed)
    /\ repo.TotalCommits = SumCommits(repo.Authors)
    /\ repo.TotalCommits = SumDaily(repo)
    /\ repo.TotalCommits = SumMatrix(repo)
    /\ repo.DailyActivity = BucketsOf(observed)
    /\ \A cell \in DOMAIN repo.HourlyMatrix :
        /\ cell[1] \in 0..(DaysPerWeek - 1)
        /\ cell[2] \in 0..(HoursPerDay - 1)
        /\ repo.HourlyMatrix[cell] = Cardinality({i \in 1..Len(observed) : CellOf(observed[i]) = cell})
    /\ \A i \in 1..Len(observed) : Has(repo.HourlyMatrix, CellOf(observed[i]))
    /\ repo.TotalAuthors = Cardinality(DOMAIN repo.Authors)

\* three commits on two days were observed and an alias was merged away
C22_Witness ==
    /\ lastOp = "merge"
    /\ mergedNow # {}
    /\ Len(observed) = 3
    /\ Cardinality(DOMAIN repo.DailyActivity) >= 2

(***************************************************************************)
(* C23: the merge counters agree                                            *)
(***************************************************************************)
RECURSIVE MergesOf(_)
\* the merge commits of a sequence of commits, in order
MergesOf(commits) ==
    IF commits = <<>> THEN <<>>
    ELSE IF Head(commits).IsMerge THEN <<Head(commits)>> \o MergesOf(Tail(commits))
    ELSE MergesOf(Tail(commits))

RECURSIVE SumMergeCounts(_, _)
SumMergeCounts(index, keys) ==
    IF keys = {} THEN 0
    ELSE LET k == CHOOSE x \in keys : TRUE
         IN  index[k].MergeCount + SumMergeCounts(index, keys \ {k})

RECURSIVE SumPRNumbers(_, _)
SumPRNumbers(index, keys) ==
    IF keys = {} THEN 0
    ELSE LET k == CHOOSE x \in keys : TRUE
         IN  Len(index[k].PRNumbers) + SumPRNumbers(index, keys \ {k})

\* C23: the merge counter is the number of merge records, the sum of the
\* per-author merge counts and the sum of the per-day merge counts; the
\* identified-PR counter is the number of records with a PR number above 0
\* and the total length of the per-author PR lists; identified PRs <= merges
\* <= commits; the records are in observation order
C23_MergeCountersAgree ==
    LET pr == repo.PRStats
        ms == MergesOf(observed)
    IN  /\ pr.TotalMerges = Len(pr.PRList)
        /\ pr.TotalMerges = SumMergeCounts(pr.MergesByAuthor, DOMAIN pr.MergesByAuthor)
        /\ pr.TotalMerges = SumOver(pr.DailyMerges, DOMAIN pr.DailyMerges)
        /\ pr.TotalPRs = Cardinality({i \in 1..Len(pr.PRList) : pr.PRList[i].PRNumber > 0})
        /\ pr.TotalPRs = SumPRNumbers(pr.MergesByAuthor, DOMAIN pr.MergesByAuthor)
        /\ pr.TotalPRs <= pr.TotalMerges
        /\ pr.TotalMerges <= repo.TotalCommits
        /\ Len(pr.PRList) = Len(ms)
        /\ \A i \in 1..Len(ms) :
            /\ pr.PRList[i].PRNumber = ms[i].PRNumber
            /\ pr.PRList[i].MergedByEmail = ms[i].Author.Email
            /\ pr.PRList[i].MergedAt = ms[i].AuthorDate
            /\ pr.PRList[i].Subject = ms[i].Subject

\* a merge without a PR number was observed, then one with a PR number,
\* then a plain commit
C23_Witness ==
    /\ Len(observed) = 3
    /\ repo.PRStats.TotalMerges = 2
    /\ repo.PRStats.TotalPRs = 1
    /\ repo.PRStats.PRList[1].PRNumber = 0
    /\ repo.PRStats.PRList[2].PRNumber > 0

(***************************************************************************)
(* C24: a binary file change                                                *)
(***************************************************************************)
RECURSIVE WithoutBinary(_)
\* the file changes of a commit that are not binary
WithoutBinary(fcs) ==
    IF fcs = <<>> THEN <<>>
    ELSE IF Head(fcs).IsBinary THEN WithoutBinary(Tail(fcs))
    ELSE <<Head(fcs)>> \o WithoutBinary(Tail(fcs))

HasBinary(c) == \E k \in 1..Len(c.FileChanges) : c.FileChanges[k].IsBinary

\* a binary change as a caller other than the parser may build it, with
\* line counts set
LoudBinFC(path) == [BinFC(path) EXCEPT !.Additions = 5, !.Deletions = 3]

BinaryProbes ==
    {c \in LifeInputs : HasBinary(c)}
    \cup { MkCommit(Ann, 34, <<LoudBinFC(SrcLogo)>>),
           MkMergeCommit(JoA, 59, <<LoudBinFC(MainGo), FC(SrcA, 1, 0)>>) }

\* the model ProcessCommit leaves for c when the binary changes are only
\* counted in the merge record's file count
ExpectedWithBinary(r, c) ==
    LET plain == ProcessCommit(r, [c EXCEPT !.FileChanges = WithoutBinary(@)])
    IN  IF c.IsMerge
        THEN [plain EXCEPT !.PRStats.PRList[Len(plain.PRStats.PRList)].FilesCount =
                                Len(c.FileChanges)]
        ELSE plain

\* C24: observing a commit with a binary change leaves the model that the
\* commit without the change would leave (no file or directory accumulator
\* for it, no counter moved by it), the merge record's file count excepted,
\* which counts it; the commit still raises the commit count, the author's
\* commit count and the time buckets
C24_BinaryChangeCountsNothing ==
    /\ \A c \in BinaryProbes :
        LET r2 == ProcessCommit(repo, c)
            e == c.Author.Email
        IN  /\ r2 = ExpectedWithBinary(repo, c)
            /\ r2.TotalCommits = repo.TotalCommits + 1
            /\ r2.Authors[e].Commits =
                    (IF Has(repo.Authors, e) THEN repo.Authors[e].Commits ELSE 0) + 1
            /\ SumDaily(r2) = SumDaily(repo) + 1
            /\ SumMatrix(r2) = SumMatrix(repo) + 1
            /\ (\A k \in 1..Len(c.FileChanges) : c.FileChanges[k].IsBinary)
                => /\ r2.FileStats = repo.FileStats
                   /\ r2.DirStats = repo.DirStats
                   /\ r2.TotalAdditions = repo.TotalAdditions
                   /\ r2.TotalDeletions = repo.TotalDeletions
    /\ \A i \in 1..Len(observed) :
        \A k \in 1..Len(observed[i].FileChanges) :
            LET fc == observed[i].FileChanges[k]
            IN  (fc.IsBinary /\ \A j \in 1..Len(observed) :
                                   \A l \in 1..Len(observed[j].FileChanges) :
                                       observed[j].FileChanges[l].FilePath = fc.FilePath
                                           => observed[j].FileChanges[l].IsBinary)
                    => ~Has(repo.FileStats, fc.FilePath)

\* a merge commit with a text and a binary change was observed: its record
\* counts two files and the binary path has no accumulator
C24_Witness ==
    /\ Len(repo.PRStats.PRList) >= 1
    /\ repo.PRStats.PRList[1].FilesCount = 2
    /\ ~Has(repo.FileStats, SrcLogo)
    /\ Has(repo.FileStats, SrcA)

(***************************************************************************)
(* C25: first-seen and last-seen timestamps                                 *)
(***************************************************************************)
\* the author dates of the observed commits now attributed to identity e
DatesOf(e) == {observed[i].AuthorDate : i \in {j \in 1..Len(observed) : owner[observed[j].Author.Email] = e}}

\* C25: every author accumulator's first-seen timestamp is the minimum and
\* its last-seen timestamp the maximum of the author dates of the commits
\* attributed to it, those of merged aliases included, so first-seen <=
\* last-seen; the zero time of a date that failed to parse is a date like
\* any other
C25_FirstLastAreMinMax ==
    \A e \in DOMAIN repo.Authors :
        /\ DatesOf(e) # {}
        /\ repo.Authors[e].FirstCommit = MinOver(DatesOf(e))
        /\ repo.Authors[e].LastCommit = MaxOfSet(DatesOf(e))
        /\ repo.Authors[e].FirstCommit <= repo.Authors[e].LastCommit

\* the same for the identities none of whose commits has the zero time
C25_ParsedDatesOnly ==
    \A e \in DOMAIN repo.Authors :
        (ZeroTime \notin DatesOf(e)) =>
            /\ DatesOf(e) # {}
            /\ repo.Authors[e].FirstCommit = MinOver(DatesOf(e))
            /\ repo.Authors[e].LastCommit = MaxOfSet(DatesOf(e))
            /\ repo.Authors[e].FirstCommit <= repo.Authors[e].LastCommit

(***************************************************************************)
(* C26: what ApplyAuthorMerges leaves alone                                 *)
(***************************************************************************)
FileFigures(fileStat) ==
    [Path |-> fileStat.Path, Additions |-> fileStat.Additions, Deletions |-> fileStat.Deletions,
     TotalChanges |-> fileStat.TotalChanges, TouchCount |-> fileStat.TouchCount]

DirFigures(dirStat) ==
    [Path |-> dirStat.Path, TotalChanges |-> dirStat.TotalChanges,
     TouchCount |-> dirStat.TouchCount]

\* everything of a model that is not keyed by, or a figure of, an author
FrameOf(r) ==
    [TotalCommits |-> r.TotalCommits,
     TotalAdditions |-> r.TotalAdditions,
     TotalDeletions |-> r.TotalDeletions,
     DailyActivity |-> r.DailyActivity,
     HourlyMatrix |-> r.HourlyMatrix,
     Files |-> [f \in DOMAIN r.FileStats |-> FileFigures(r.FileStats[f])],
     Dirs |-> [d \in DOMAIN r.DirStats |-> DirFigures(r.DirStats[d])]]

\* the maps of one alias and its primary
PairMaps == {m \in WellFormedMaps : Cardinality(DOMAIN m) = 2 /\ Cardinality(AliasKeys(m)) = 1}

\* C26: for every map, well-formed or not, and every visiting order (on a
\* model that was merged before: for every map of one alias and its primary),

\* ApplyAuthorMerges leaves the total-commit count, the total additions and
\* deletions, the day buckets, the weekday-hour matrix, the sets of file and
\* directory accumulators and each one's additions, deletions, total changes
\* and touch count as they were
C26_MergeFrame ==
    \A merges \in (IF PreMerge THEN MergeMaps ELSE PairMaps) :
        \A r2 \in ApplyAuthorMerges(repo, merges) :
            FrameOf(r2) = FrameOf(repo)

\* a merge removed an alias from a model with two directories and a file
\* touched twice
C26_Witness ==
    /\ lastOp = "merge"
    /\ mergedNow # {}
    /\ Cardinality(DOMAIN repo.DirStats) = 2
    /\ \E f \in DOMAIN repo.FileStats : repo.FileStats[f].TouchCount = 2

(***************************************************************************)
(* C27: the author index and the file index agree                           *)
(***************************************************************************)
\* C27: for every email e and path f the author accumulator's touch count
\* for f equals the file accumulator's touch count for e (absent meaning 0),
\* every email keyed in a file's or directory's per-author map has an
\* author accumulator, and a file's per-author touch counts sum to its touch
\* count
C27_IndicesAgree ==
    /\ \A e \in Emails : \A f \in DOMAIN repo.FileStats :
        (IF Has(repo.Authors, e) THEN Get0(repo.Authors[e].FilesTouched, f) ELSE 0)
            = Get0(repo.FileStats[f].Authors, e)
    /\ \A e \in DOMAIN repo.Authors : DOMAIN repo.Authors[e].FilesTouched \subseteq DOMAIN repo.FileStats
    /\ FileAuthorKeys(repo) \subseteq AuthorKeys(repo)
    /\ DirAuthorKeys(repo) \subseteq AuthorKeys(repo)
    /\ \A f \in DOMAIN repo.FileStats :
        SumOver(repo.FileStats[f].Authors, DOMAIN repo.FileStats[f].Authors)
            = repo.FileStats[f].TouchCount

C27_BeforeAnyMerge == PreMerge => C27_IndicesAgree

(***************************************************************************)
(* C28: the visiting order of a well-formed map does not matter             *)
(***************************************************************************)
\* the well-formed maps with two aliases or more
ManyAliasMaps == {m \in WellFormedMaps : Cardinality(AliasKeys(m)) >= 2}

\* C28: for every well-formed map, any two visiting orders of its entries
\* (in the author loop and in the inner loops of every file and directory)
\* leave equal models
C28_OrderIndependent ==
    \A merges \in (IF PreMerge THEN WellFormedMaps ELSE ManyAliasMaps) :
        \A r2, r3 \in ApplyAuthorMerges(repo, merges) : r2 = r3

(***************************************************************************)
(* C29: once setup completes with valid repositories, the scan eventually   *)
(* shows the main page, having called Finalize exactly once before the      *)
(* switch, whether or not a Parse returned an error: while the progress     *)
(* page shows Finalize was called at most once, on the main page it was     *)
(* called exactly once, and the progress page always leads to the main      *)
(* page.                                                                    *)
(***************************************************************************)
C29_ScanReachesMain ==
    /\ [](finalizeCalls <= 1)
    /\ [](page = "main" => finalizeCalls = 1)
    /\ (page = "progress") ~> (page = "main" /\ finalizeCalls = 1 /\ parsed = 1..Len(RepoPaths))

\* the main page shows after a scan in which every Parse returned an error
C29_Witness ==
    /\ page = "main"
    /\ pc = "done"
    /\ finalizeCalls = 1
    /\ failed = 1..Len(RepoPaths)

(***************************************************************************)
(* The sort column of the table views: each view keeps the index of the     *)
(* column it sorts by, and CycleSortColumn moves it on.  The pull-request   *)
(* view has two tables, by author and the list of pull requests, and        *)
(* ToggleView switches between them.                                        *)
(***************************************************************************)
\* len(v.columns): part_004 line 27, part_000 line 28, hotspots.go line 28,
\* pullrequests.go line 31
ColumnCount(view) ==
    CASE view = "Leaderboard" -> 7
      [] view = "Top Files" -> 7
      [] view = "Hotspots" -> 6
      [] view = "Pull Requests" -> 5

\* pullrequests.go line 319: the modulus of the cycle of the list view
PRListColumns == 7

\* LeaderboardView.CycleSortColumn (part_004 lines 131-136)
LeaderboardCycle(col) ==
    LET n == (col + 1) % ColumnCount("Leaderboard")
    IN  IF n = 0 \/ n = 6 THEN 1 ELSE n

\* FilesView.CycleSortColumn (part_000 lines 162-167)
FilesCycle(col) ==
    LET n == (col + 1) % ColumnCount("Top Files")
    IN  IF n = 0 THEN 1 ELSE n

\* HotspotsView.CycleSortColumn (hotspots.go lines 189-195)
HotspotsCycle(col) ==
    LET n == (col + 1) % ColumnCount("Hotspots")
    IN  IF n = 0 THEN 1 ELSE n

\* PullRequestsView.CycleSortColumn (pullrequests.go lines 315-330)
PullRequestsCycle(col, list) ==
    IF list
    THEN LET n == (col + 1) % PRListColumns
         IN  IF n = 0 \/ n = 2 \/ n = 3 THEN n + 1 ELSE n
    ELSE LET n == (col + 1) % ColumnCount("Pull Requests")
         IN  IF n = 0 \/ n = 4 THEN 1 ELSE n

SortFrame == UNCHANGED <<aggVars, parseVars, scanVars, histVars, queryVars, viewVars, appVars>>

CycleLeaderboard ==
    /\ sortCol' = [sortCol EXCEPT !["Leaderboard"] = LeaderboardCycle(@)]
    /\ UNCHANGED showPRs
    /\ SortFrame

CycleFiles ==
    /\ sortCol' = [sortCol EXCEPT !["Top Files"] = FilesCycle(@)]
    /\ UNCHANGED showPRs
    /\ SortFrame

CycleHotspots ==
    /\ sortCol' = [sortCol EXCEPT !["Hotspots"] = HotspotsCycle(@)]
    /\ UNCHANGED showPRs
    /\ SortFrame

CyclePullRequests ==
    /\ sortCol' = [sortCol EXCEPT !["Pull Requests"] = PullRequestsCycle(@, showPRs)]
    /\ UNCHANGED showPRs
    /\ SortFrame

\* PullRequestsView.ToggleView (pullrequests.go lines 305-313)
ToggleView ==
    /\ showPRs' = ~showPRs
    /\ sortCol' = [sortCol EXCEPT !["Pull Requests"] = 1]
    /\ SortFrame

NextSort ==
    \/ CycleLeaderboard
    \/ CycleFiles
    \/ CycleHotspots
    \/ CyclePullRequests
    \/ ToggleView

SpecSort == Init /\ [][NextSort]_vars

(***************************************************************************)
(* C30: the sort column of a view is always a sortable column: 1..5 in the  *)
(* leaderboard, 1..6 in top files, 1..5 in hotspots, and in the list of     *)
(* pull requests never the rank, branch or merged-by column (0, 2, 3).      *)
(***************************************************************************)
C30_SortColumnSortable ==
    /\ sortCol["Leaderboard"] \in 1..5
    /\ sortCol["Top Files"] \in 1..6
    /\ sortCol["Hotspots"] \in 1..5
    /\ showPRs => sortCol["Pull Requests"] \notin {0, 2, 3}

====
